---- MODULE Spec2Model ----
(***************************************************************************)
(* Hospital management system: the file-per-entity JSON store and the      *)
(* entity services (patients, doctors, appointments, medical records)      *)
(* built on it.                                                            *)
(*                                                                         *)
(* JavaScript values are modelled as follows.                              *)
(*   - a string is a tuple of symbols, <<>> being the empty string; " "   *)
(*     and "\\n" are whitespace characters, "\\0" is a control character,  *)
(*     and every other symbol is an ordinary character or a run of         *)
(*     ordinary characters that the code never splits;                     *)
(*   - undefined and null are the reserved tuples UNDEF and NULL;          *)
(*   - an object is a function from its own keys to values; a key that is  *)
(*     absent from the object is absent from the function's DOMAIN;        *)
(*   - a file holds either the JSON text of an object or text that does    *)
(*     not parse.                                                          *)
(***************************************************************************)
EXTENDS Integers, Sequences, FiniteSets, TLC

VARIABLES
    dirs,       \* the directories that exist: "root" and collection names
    files,      \* files[c][name]: the text of file name in directory c
    clock,      \* Date.now(): the millisecond in which the calls are made
    readOnly,   \* the file system refuses writes: writeFile and unlink fail
    tasks,      \* the calls in flight: where each is between its awaits
    last        \* the last operation called and what it returned or threw

vars == <<dirs, files, clock, readOnly, tasks, last>>

----------------------------------------------------------------------------
(* Bounds of the model *)

MaxFiles == 2           \* files the store-level calls create, in all
MaxPatients == 1       \* patient files the services create
MaxDoctors == 1        \* doctor files the services create
MaxAppointments == 2   \* appointment files the services create
MaxRecords == 1        \* medical-record files the services create
MaxNotes == 5           \* acceptPostponement is followed while the notes are shorter
MaxClock == 2          \* milliseconds that pass between calls
MaxLen == 3            \* characters of a string given to sanitizeString

----------------------------------------------------------------------------
(* JavaScript values *)

UNDEF == <<"#undefined">>
NULL == <<"#null">>

WS == " "
NL == "\\n"
CTRL == "\\0"

\* the characters trim() removes and \\s matches
IsSpace(ch) == ch \in {WS, NL}

IsString(v) == v # UNDEF /\ v # NULL

\* An object literal / object spread: {...a, ...b}
Spread(a, b) ==
    [k \in (DOMAIN a) \cup (DOMAIN b) |-> IF k \in DOMAIN b THEN b[k] ELSE a[k]]

EmptyObject == [k \in {} |-> UNDEF]

\* obj[key], undefined when the key is absent
Get(obj, key) == IF key \in DOMAIN obj THEN obj[key] ELSE UNDEF

\* {...obj, key: value}
With(obj, key, value) == Spread(obj, [k \in {key} |-> value])

\* String.prototype.trim
RECURSIVE TrimLeft(_)
TrimLeft(s) == IF s # <<>> /\ IsSpace(Head(s)) THEN TrimLeft(Tail(s)) ELSE s

RECURSIVE TrimRight(_)
TrimRight(s) ==
    IF s # <<>> /\ IsSpace(s[Len(s)]) THEN TrimRight(SubSeq(s, 1, Len(s) - 1)) ELSE s

trim(s) == TrimRight(TrimLeft(s))

\* !value : undefined, null and the empty string are falsy
Falsy(v) == v = UNDEF \/ v = NULL \/ v = <<>>

----------------------------------------------------------------------------
(* Error values *)

\* new AppError(code, message, details)
AppError(code, what, names, ref) ==
    [name |-> "AppError", code |-> code, what |-> what, names |-> names, ref |-> ref]

\* new Error(message)
PlainError(what, names, ref) ==
    [name |-> "Error", code |-> "none", what |-> what, names |-> names, ref |-> ref]

StorageError(operation, path) ==
    AppError("STORAGE_ERROR", operation, <<>>, path[2])

NoError == [name |-> "none", code |-> "none", what |-> "none", names |-> <<>>, ref |-> <<>>]

\* ErrorHandler.handleError: an AppError passes through, any other Error
\* becomes an AppError with code UNKNOWN_ERROR and the same message
handleError(error) ==
    IF error.name = "AppError" THEN error
    ELSE AppError("UNKNOWN_ERROR", error.what, error.names, error.ref)

\* ErrorHandler.wrapAsync applied to the outcome r of the wrapped function
wrapAsync(r) == IF r.ok THEN r ELSE [r EXCEPT !.err = handleError(r.err)]

Ok(value) == [ok |-> TRUE, err |-> NoError, value |-> value]
Throw(error) == [ok |-> FALSE, err |-> error, value |-> <<>>]

----------------------------------------------------------------------------
(* StorageManager *)

Collections == {"patients", "doctors", "appointments", "medical-records"}

JSON_EXT == ".json"

\* path.join(dataDir, collection, `${id}.json`): the directory and the file name
getFilePath(collection, id) == <<collection, id \o <<JSON_EXT>>>>

\* file.endsWith('.json')
endsWithJson(name) == name # <<>> /\ name[Len(name)] = JSON_EXT

\* a serialisation that leaves out null as well as undefined
stringifyWithoutNull(data) ==
    [valid |-> TRUE,
     data |-> [k \in {f \in DOMAIN data : data[f] # UNDEF /\ data[f] # NULL} |-> data[k]]]

\* JSON.stringify(data, null, 2): keys whose value is undefined are left out
stringify(data) ==
    [valid |-> TRUE, data |-> [k \in {f \in DOMAIN data : data[f] # UNDEF} |-> data[k]]]

\* text that JSON.parse rejects with a SyntaxError
CorruptText == [valid |-> FALSE, data |-> EmptyObject]

\* a directory found where a file is expected: readFile, writeFile and unlink
\* fail on it with EISDIR, access succeeds
DirectoryEntry == [valid |-> FALSE, data |-> [directory |-> <<>>]]

\* fs: whether the file exists
FileExists(path) == path[1] \in dirs /\ path[2] \in DOMAIN files[path[1]]

\* fs: whether the path is that of a directory
IsDirectory(path) == FileExists(path) /\ files[path[1]][path[2]] = DirectoryEntry

\* fs.writeFile: the files after writing text to path
WriteFile(path, text) ==
    [files EXCEPT ![path[1]] =
        [n \in (DOMAIN @) \cup {path[2]} |-> IF n = path[2] THEN text ELSE @[n]]]

\* fs.unlink: the files after removing path
Unlink(path) ==
    [files EXCEPT ![path[1]] = [n \in (DOMAIN @) \ {path[2]} |-> @[n]]]

\* a save that swallows the failure of the write
saveSwallowingFailure(collection, id, data) ==
    LET path == getFilePath(collection, id) IN
    IF path[1] \in dirs /\ ~IsDirectory(path) /\ ~readOnly
    THEN [ok |-> TRUE, err |-> NoError, files |-> WriteFile(path, stringify(data))]
    ELSE [ok |-> TRUE, err |-> NoError, files |-> files]

\* StorageManager.save: the outcome and the files afterwards
save(collection, id, data) ==
    LET path == getFilePath(collection, id) IN
    wrapAsync(
        IF path[1] \in dirs /\ ~IsDirectory(path) /\ ~readOnly
        THEN [ok |-> TRUE, err |-> NoError, files |-> WriteFile(path, stringify(data))]
        ELSE [ok |-> FALSE, err |-> StorageError("save", path), files |-> files])

\* a load that reports a file that does not parse as any other read failure
loadWithoutParseError(collection, id) ==
    LET path == getFilePath(collection, id) IN
    wrapAsync(
        IF ~FileExists(path) THEN Ok(<<>>)
        ELSE IF files[path[1]][path[2]].valid THEN Ok(<<files[path[1]][path[2]].data>>)
        ELSE Throw(StorageError("load", path)))

\* StorageManager.load: <<entity>>, or <<>> for null when the file is absent
load(collection, id) ==
    LET path == getFilePath(collection, id) IN
    wrapAsync(
        IF ~FileExists(path) THEN Ok(<<>>)
        ELSE IF IsDirectory(path) THEN Throw(StorageError("load", path))
        ELSE IF files[path[1]][path[2]].valid THEN Ok(<<files[path[1]][path[2]].data>>)
        ELSE Throw(AppError("JSON_PARSE_ERROR", "CorruptedDataFile", <<>>, path[2])))

\* the file names of a directory in readdir order
RECURSIVE readdir(_)
readdir(names) ==
    IF names = {} THEN <<>>
    ELSE LET n == CHOOSE x \in names : TRUE IN <<n>> \o readdir(names \ {n})

\* the loop of loadAll over the listed names
RECURSIVE loadAllLoop(_, _)
loadAllLoop(collection, listing) ==
    IF listing = <<>> THEN <<>>
    ELSE LET file == Head(listing)
             rest == loadAllLoop(collection, Tail(listing))
         IN IF endsWithJson(file) /\ files[collection][file].valid
            THEN <<files[collection][file].data>> \o rest
            ELSE rest

\* loadAll that gives up at a file that does not parse
loadAllFailFast(collection) ==
    wrapAsync(
        IF collection \notin dirs THEN Ok(<<>>)
        ELSE IF \E n \in DOMAIN files[collection] :
                    endsWithJson(n) /\ ~files[collection][n].valid
             THEN Throw(AppError("JSON_PARSE_ERROR", "CorruptedDataFile", <<>>, <<>>))
        ELSE Ok(loadAllLoop(collection, readdir(DOMAIN files[collection]))))

\* StorageManager.loadAll
loadAll(collection) ==
    wrapAsync(
        IF collection \notin dirs THEN Ok(<<>>)
        ELSE Ok(loadAllLoop(collection, readdir(DOMAIN files[collection]))))

\* a delete that fails when there is no file to remove
deleteFailingOnMissing(collection, id) ==
    LET path == getFilePath(collection, id) IN
    wrapAsync(
        IF FileExists(path) /\ ~IsDirectory(path) /\ ~readOnly
        THEN [ok |-> TRUE, err |-> NoError, files |-> Unlink(path)]
        ELSE [ok |-> FALSE, err |-> StorageError("delete", path), files |-> files])

\* StorageManager.delete: the outcome and the files afterwards
delete(collection, id) ==
    LET path == getFilePath(collection, id) IN
    wrapAsync(
        IF IsDirectory(path) \/ (readOnly /\ FileExists(path))
        THEN [ok |-> FALSE, err |-> StorageError("delete", path), files |-> files]
        ELSE IF FileExists(path)
        THEN [ok |-> TRUE, err |-> NoError, files |-> Unlink(path)]
        ELSE [ok |-> TRUE, err |-> NoError, files |-> files])

\* StorageManager.exists
exists(collection, id) == FileExists(getFilePath(collection, id))

\* an initialize that makes the root directory only
initializeRootOnly == dirs \cup {"root"}

\* StorageManager.initialize: the directories afterwards
initialize == dirs \cup {"root"} \cup Collections

----------------------------------------------------------------------------
(* The record of the last call *)

\* the calls that can be in flight at once
TaskIds == {1, 2}

\* a call in flight: its next step, its arguments, the collection it works
\* on, the entity it is about to save, what is left of a directory listing,
\* and what it has collected
Task(pc, op, coll, id, arg, entity, listing, acc) ==
    [pc |-> pc, op |-> op, coll |-> coll, id |-> id, arg |-> arg, entity |-> entity,
     listing |-> listing, acc |-> acc]

Idle == Task("idle", "none", "none", <<>>, EmptyObject, EmptyObject, <<>>, <<>>)

NoTasks == [t \in TaskIds |-> Idle]

Call(op, coll, id, arg, ok, err, ret) ==
    [op |-> op, coll |-> coll, id |-> id, arg |-> arg, ok |-> ok, err |-> err,
     ret |-> ret]

NoCall == Call("none", "none", <<>>, EmptyObject, TRUE, NoError, <<>>)

\* the number of files in the store
RECURSIVE SumFiles(_)
SumFiles(cs) ==
    IF cs = {} THEN 0
    ELSE LET c == CHOOSE x \in cs : TRUE
         IN Cardinality(DOMAIN files[c]) + SumFiles(cs \ {c})

NoFiles == [c \in Collections |-> EmptyObject]

----------------------------------------------------------------------------
(* The store on its own: the calls of StorageManager, and writes to the    *)
(* data directory that do not go through it                                *)

\* the collections and ids the store-level calls are made with
StoreCollections == {"patients", "medical-records"}
StoreIds == {<<"x">>, <<"y">>}

StoreValues ==
    { [name |-> <<"n">>, email |-> UNDEF],
      [name |-> <<"n">>, email |-> <<"e">>],
      [name |-> <<>>, email |-> NULL] }

\* names of files written into a collection directory from outside
ForeignNames == {<<"corrupted", JSON_EXT>>, <<"notes", ".txt">>}

InitStore ==
    /\ dirs = {}
    /\ files = NoFiles
    /\ clock = 0
    /\ readOnly = FALSE
    /\ tasks = NoTasks
    /\ last = NoCall

StoreInitialize ==
    /\ dirs' = initialize
    /\ last' = Call("initialize", "none", <<>>, EmptyObject, TRUE, NoError, <<>>)
    /\ UNCHANGED <<files, clock, readOnly, tasks>>

StoreSave(collection, id, data) ==
    LET r == save(collection, id, data) IN
    /\ exists(collection, id) \/ SumFiles(Collections) < MaxFiles
    /\ files' = r.files
    /\ last' = Call("save", collection, id, data, r.ok, r.err, <<>>)
    /\ UNCHANGED <<dirs, clock, readOnly, tasks>>

StoreLoad(collection, id) ==
    LET r == load(collection, id) IN
    /\ last' = Call("load", collection, id, EmptyObject, r.ok, r.err, r.value)
    /\ UNCHANGED <<dirs, files, clock, readOnly, tasks>>

StoreLoadAll(collection) ==
    LET r == loadAll(collection) IN
    /\ last' = Call("loadAll", collection, <<>>, EmptyObject, r.ok, r.err, r.value)
    /\ UNCHANGED <<dirs, files, clock, readOnly, tasks>>

StoreDelete(collection, id) ==
    LET r == delete(collection, id) IN
    /\ files' = r.files
    /\ last' = Call("delete", collection, id, EmptyObject, r.ok, r.err, <<>>)
    /\ UNCHANGED <<dirs, clock, readOnly, tasks>>

StoreExists(collection, id) ==
    /\ last' = Call("exists", collection, id, EmptyObject, TRUE, NoError,
                    <<exists(collection, id)>>)
    /\ UNCHANGED <<dirs, files, clock, readOnly, tasks>>

\* a file of a collection directory is overwritten with text that does not
\* parse, or a file or a directory is put there that StorageManager did not
\* write
ForeignWrite(collection, name, text) ==
    /\ collection \in dirs
    /\ name \in DOMAIN files[collection] \/ SumFiles(Collections) < MaxFiles
    /\ files' = WriteFile(<<collection, name>>, text)
    /\ last' = Call("foreign", collection, name, EmptyObject, TRUE, NoError, <<>>)
    /\ UNCHANGED <<dirs, clock, readOnly, tasks>>

NextStore ==
    \/ StoreInitialize
    \/ \E c \in StoreCollections, id \in StoreIds, v \in StoreValues : StoreSave(c, id, v)
    \/ \E c \in StoreCollections, id \in StoreIds : StoreLoad(c, id)
    \/ \E c \in StoreCollections : StoreLoadAll(c)
    \/ \E c \in StoreCollections, id \in StoreIds : StoreDelete(c, id)
    \/ \E c \in StoreCollections, id \in StoreIds : StoreExists(c, id)
    \/ \E c \in StoreCollections :
          \E n \in (DOMAIN files[c]) \cup ForeignNames :
             \E t \in {CorruptText, DirectoryEntry, stringify([name |-> <<"n">>])} :
                ForeignWrite(c, n, t)

SpecStore == InitStore /\ [][NextStore]_vars

----------------------------------------------------------------------------
(* InputValidator and ErrorHandler.validateRequiredFields *)

MaxSanitizedLength == 1000
MinPhoneLength == 4

Digits == {"0", "1", "2", "3", "4", "5", "6", "7", "8", "9"}

\* the characters the phone-number pattern allows: [\d\s\-\(\)\+]
PhoneChars == Digits \cup {WS, NL, "-", "(", ")", "+"}

\* the strings new Date(...) parses to the same calendar day
ParseableDates == {<<"1990-01-15">>, <<"2024-01-15T10:00">>, <<"2024-02-20T09:00">>}

Min(a, b) == IF a < b THEN a ELSE b

\* InputValidator.isNonEmptyString
isNonEmptyString(value) == IsString(value) /\ Len(trim(value)) > 0

\* InputValidator.isValidEmail: /^[^\s@]+@[^\s@]+\.[^\s@]+$/ on the trimmed string
isValidEmail(email) ==
    /\ ~Falsy(email)
    /\ LET s == trim(email) IN
       /\ \A i \in 1..Len(s) : ~IsSpace(s[i])
       /\ Cardinality({i \in 1..Len(s) : s[i] = "@"}) = 1
       /\ \E i \in 2..Len(s) :
             /\ s[i] = "@"
             /\ \E j \in (i + 2)..(Len(s) - 1) : s[j] = "."

\* InputValidator.isValidDate
isValidDate(dateString) == ~Falsy(dateString) /\ trim(dateString) \in ParseableDates

\* InputValidator.isValidPhoneNumber
isValidPhoneNumber(phone) ==
    /\ ~Falsy(phone)
    /\ LET s == trim(phone) IN
       /\ Len(s) > 0
       /\ \A i \in 1..Len(s) : s[i] \in PhoneChars
       /\ Len(s) >= MinPhoneLength

\* InputValidator.sanitizeString
sanitizeString(input) ==
    IF ~IsString(input) THEN <<>>
    ELSE LET stripped == SelectSeq(trim(input), LAMBDA ch : ch # CTRL)
         IN SubSeq(stripped, 1, Min(Len(stripped), MaxSanitizedLength))

ValidationError(entityType, missingFields) ==
    AppError("MISSING_REQUIRED_FIELDS", "MissingRequiredFields", missingFields, <<entityType>>)

EntityNotFoundError(entityType, id) ==
    AppError("ENTITY_NOT_FOUND", "NotFound", <<entityType>>, id)

\* the loop of ErrorHandler.validateRequiredFields: the missing fields, in order
RECURSIVE missingRequired(_, _)
missingRequired(data, requiredFields) ==
    IF requiredFields = <<>> THEN <<>>
    ELSE LET field == Head(requiredFields)
             value == Get(data, field)
             rest == missingRequired(data, Tail(requiredFields))
         IN IF value = UNDEF \/ value = NULL \/ (IsString(value) /\ trim(value) = <<>>)
            THEN <<field>> \o rest
            ELSE rest

\* ErrorHandler.validateRequiredFields
validateRequiredFields(entityType, data, requiredFields) ==
    LET missingFields == missingRequired(data, requiredFields) IN
    IF Len(missingFields) > 0
    THEN Throw(ValidationError(entityType, missingFields))
    ELSE Ok(<<>>)

\* a loop that stops at the first missing field
firstMissingFalsy(data, requiredFields) ==
    LET missing == {i \in 1..Len(requiredFields) :
                       LET value == Get(data, requiredFields[i])
                       IN Falsy(value) \/ (IsString(value) /\ trim(value) = <<>>)}
    IN IF missing = {} THEN <<>>
       ELSE <<requiredFields[CHOOSE i \in missing : \A j \in missing : i <= j]>>

\* the loop the Doctor, Appointment and MedicalRecord services each carry:
\* a field is missing when it is falsy or a whitespace-only string
RECURSIVE missingFalsy(_, _)
missingFalsy(data, requiredFields) ==
    IF requiredFields = <<>> THEN <<>>
    ELSE LET field == Head(requiredFields)
             value == Get(data, field)
             rest == missingFalsy(data, Tail(requiredFields))
         IN IF Falsy(value) \/ (IsString(value) /\ trim(value) = <<>>)
            THEN <<field>> \o rest
            ELSE rest

----------------------------------------------------------------------------
(* generateId *)

\* Math.random().toString(36).substring(2, 8)
RandomSuffixes == {"a", "b"}

\* the draw made where one id per collection is enough
FirstSuffix == "a"

\* Date.now() and new Date().toISOString() as one character
Stamp(now) == ToString(now)

ENTITY_PREFIXES ==
    [entityType \in {"patient", "doctor", "appointment", "medical-record"} |->
        CASE entityType = "patient" -> "PAT"
          [] entityType = "doctor" -> "DOC"
          [] entityType = "appointment" -> "APT"
          [] entityType = "medical-record" -> "MED"]

\* generateId(entityType), given the clock and the random draw
generateId(entityType, now, random) ==
    <<ENTITY_PREFIXES[entityType], "-", Stamp(now), "-", random>>

----------------------------------------------------------------------------
(* PatientService *)

PatientRequired == <<"name", "dateOfBirth", "contactNumber", "address">>

InvalidFormat(what) == AppError("INVALID_FORMAT", what, <<>>, <<>>)

\* PatientService.validateAndSanitizePatientData
validateAndSanitizePatientData(data) ==
    LET required == validateRequiredFields("Patient", data, PatientRequired) IN
    IF ~required.ok THEN required
    ELSE IF ~isNonEmptyString(data.name) THEN Throw(InvalidFormat("name"))
    ELSE IF ~isValidDate(data.dateOfBirth) THEN Throw(InvalidFormat("dateOfBirth"))
    ELSE IF ~isValidPhoneNumber(data.contactNumber) THEN Throw(InvalidFormat("contactNumber"))
    ELSE IF ~isNonEmptyString(data.address) THEN Throw(InvalidFormat("address"))
    ELSE IF ~Falsy(Get(data, "email")) /\ ~isValidEmail(data.email)
         THEN Throw(InvalidFormat("email"))
    ELSE Ok(Spread(data,
            Spread([name |-> sanitizeString(data.name),
                    dateOfBirth |-> sanitizeString(data.dateOfBirth),
                    contactNumber |-> sanitizeString(data.contactNumber),
                    address |-> sanitizeString(data.address)],
                   IF ~Falsy(Get(data, "email"))
                   THEN [email |-> sanitizeString(data.email)]
                   ELSE EmptyObject)))

\* one field of PatientService.sanitizePartialPatientData
sanitizePartialField(data, field, valid) ==
    IF Get(data, field) = UNDEF THEN Ok(EmptyObject)
    ELSE IF ~valid THEN Throw(InvalidFormat(field))
    ELSE Ok([k \in {field} |-> sanitizeString(data[field])])

\* PatientService.sanitizePartialPatientData
sanitizePartialPatientData(data) ==
    LET name == sanitizePartialField(data, "name", isNonEmptyString(Get(data, "name")))
        dob == sanitizePartialField(data, "dateOfBirth", isValidDate(Get(data, "dateOfBirth")))
        phone == sanitizePartialField(data, "contactNumber",
                                      isValidPhoneNumber(Get(data, "contactNumber")))
        address == sanitizePartialField(data, "address", isNonEmptyString(Get(data, "address")))
        email == IF Get(data, "email") = UNDEF THEN Ok(EmptyObject)
                 ELSE IF ~Falsy(data.email) /\ ~isValidEmail(data.email)
                      THEN Throw(InvalidFormat("email"))
                 ELSE Ok([email |-> IF ~Falsy(data.email)
                                    THEN sanitizeString(data.email) ELSE UNDEF])
    IN IF ~name.ok THEN name
       ELSE IF ~dob.ok THEN dob
       ELSE IF ~phone.ok THEN phone
       ELSE IF ~address.ok THEN address
       ELSE IF ~email.ok THEN email
       ELSE Ok(Spread(name.value, Spread(dob.value,
                 Spread(phone.value, Spread(address.value, email.value)))))

\* the outcome of a service call that wrote nothing
Fail(r) == [ok |-> FALSE, err |-> r.err, value |-> <<>>, files |-> files]

\* the outcome of a service call that ends by saving entity under id
SaveAndReturn(collection, id, entity) ==
    LET s == save(collection, id, entity) IN
    [ok |-> s.ok, err |-> s.err, value |-> IF s.ok THEN <<entity>> ELSE <<>>,
     files |-> s.files]

\* wrapAsync around a service call
wrapCall(r) == [r EXCEPT !.err = IF r.ok THEN r.err ELSE handleError(r.err)]

\* PatientService.registerPatient
registerPatient(data, now, random) ==
    wrapCall(
        LET sanitizedData == validateAndSanitizePatientData(data) IN
        IF ~sanitizedData.ok THEN Fail(sanitizedData)
        ELSE LET id == generateId("patient", now, random)
                 patient == Spread(sanitizedData.value,
                                   [id |-> id, createdAt |-> <<Stamp(now)>>])
             IN SaveAndReturn("patients", id, patient))

\* PatientService.getPatient
getPatient(id) ==
    wrapAsync(
        IF ~isNonEmptyString(id) THEN Throw(InvalidFormat("id"))
        ELSE load("patients", sanitizeString(id)))

\* an updatePatient that merges the payload as it came, unsanitized
updatePatientUnsanitized(id, data) ==
    wrapCall(
        IF ~isNonEmptyString(id) THEN Fail(Throw(InvalidFormat("id")))
        ELSE LET sanitizedId == sanitizeString(id)
                 existingPatient == getPatient(sanitizedId)
             IN IF ~existingPatient.ok THEN Fail(existingPatient)
                ELSE IF existingPatient.value = <<>>
                     THEN Fail(Throw(EntityNotFoundError("Patient", sanitizedId)))
                ELSE LET sanitizedData == sanitizePartialPatientData(data) IN
                     IF ~sanitizedData.ok THEN Fail(sanitizedData)
                     ELSE LET existing == existingPatient.value[1]
                              updatedPatient ==
                                 Spread(Spread(existing, data),
                                        [id |-> Get(existing, "id"),
                                         createdAt |-> Get(existing, "createdAt")])
                              checked == validateAndSanitizePatientData(updatedPatient)
                          IN IF ~checked.ok THEN Fail(checked)
                             ELSE SaveAndReturn("patients", sanitizedId, updatedPatient))

\* PatientService.updatePatient
updatePatient(id, data) ==
    wrapCall(
        IF ~isNonEmptyString(id) THEN Fail(Throw(InvalidFormat("id")))
        ELSE LET sanitizedId == sanitizeString(id)
                 existingPatient == getPatient(sanitizedId)
             IN IF ~existingPatient.ok THEN Fail(existingPatient)
                ELSE IF existingPatient.value = <<>>
                     THEN Fail(Throw(EntityNotFoundError("Patient", sanitizedId)))
                ELSE LET sanitizedData == sanitizePartialPatientData(data) IN
                     IF ~sanitizedData.ok THEN Fail(sanitizedData)
                     ELSE LET existing == existingPatient.value[1]
                              updatedPatient ==
                                 Spread(Spread(existing, sanitizedData.value),
                                        [id |-> Get(existing, "id"),
                                         createdAt |-> Get(existing, "createdAt")])
                              checked == validateAndSanitizePatientData(updatedPatient)
                          IN IF ~checked.ok THEN Fail(checked)
                             ELSE SaveAndReturn("patients", sanitizedId, updatedPatient))

\* a deletePatient that also removes the appointments of the patient
deletePatientCascading(id) ==
    wrapCall(
        IF ~isNonEmptyString(id) THEN Fail(Throw(InvalidFormat("id")))
        ELSE LET sanitizedId == sanitizeString(id)
                 existingPatient == getPatient(sanitizedId)
             IN IF ~existingPatient.ok THEN Fail(existingPatient)
                ELSE IF existingPatient.value = <<>>
                     THEN Fail(Throw(EntityNotFoundError("Patient", sanitizedId)))
                ELSE LET d == delete("patients", sanitizedId)
                         kept == {n \in DOMAIN d.files["appointments"] :
                                     Get(d.files["appointments"][n].data, "patientId")
                                        # sanitizedId}
                     IN [ok |-> d.ok, err |-> d.err, value |-> <<>>,
                         files |-> [d.files EXCEPT !["appointments"] =
                                       [n \in kept |-> @[n]]]])

\* PatientService.deletePatient
deletePatient(id) ==
    wrapCall(
        IF ~isNonEmptyString(id) THEN Fail(Throw(InvalidFormat("id")))
        ELSE LET sanitizedId == sanitizeString(id)
                 existingPatient == getPatient(sanitizedId)
             IN IF ~existingPatient.ok THEN Fail(existingPatient)
                ELSE IF existingPatient.value = <<>>
                     THEN Fail(Throw(EntityNotFoundError("Patient", sanitizedId)))
                ELSE LET d == delete("patients", sanitizedId) IN
                     [ok |-> d.ok, err |-> d.err, value |-> <<>>, files |-> d.files])

----------------------------------------------------------------------------
(* DoctorService *)

DoctorRequired == <<"name", "specialization", "contactNumber">>

\* DoctorService.validateRequiredFields
Doctor_validateRequiredFields(data) ==
    LET missingFields == missingFalsy(data, DoctorRequired) IN
    IF Len(missingFields) > 0
    THEN Throw(PlainError("MissingRequiredFields", missingFields, <<"Doctor">>))
    ELSE Ok(<<>>)

\* DoctorService.registerDoctor
registerDoctor(data, now, random) ==
    LET checked == Doctor_validateRequiredFields(data) IN
    IF ~checked.ok THEN Fail(checked)
    ELSE LET id == generateId("doctor", now, random)
             doctor == Spread(data, [id |-> id, createdAt |-> <<Stamp(now)>>])
         IN SaveAndReturn("doctors", id, doctor)

\* DoctorService.getDoctor
getDoctor(id) == load("doctors", id)

\* updateDoctor that writes the merged doctor before it validates it
updateDoctorWriteFirst(id, data) ==
    LET existingDoctor == getDoctor(id) IN
    IF ~existingDoctor.ok THEN Fail(existingDoctor)
    ELSE IF existingDoctor.value = <<>>
         THEN Fail(Throw(PlainError("NotFound", <<"Doctor">>, id)))
    ELSE LET existing == existingDoctor.value[1]
             updatedDoctor == Spread(Spread(existing, data),
                                     [id |-> Get(existing, "id"),
                                      createdAt |-> Get(existing, "createdAt")])
             checked == Doctor_validateRequiredFields(updatedDoctor)
             written == SaveAndReturn("doctors", id, updatedDoctor)
         IN IF ~checked.ok
            THEN [ok |-> FALSE, err |-> checked.err, value |-> <<>>, files |-> written.files]
            ELSE written

\* DoctorService.updateDoctor
updateDoctor(id, data) ==
    LET existingDoctor == getDoctor(id) IN
    IF ~existingDoctor.ok THEN Fail(existingDoctor)
    ELSE IF existingDoctor.value = <<>>
         THEN Fail(Throw(PlainError("NotFound", <<"Doctor">>, id)))
    ELSE LET existing == existingDoctor.value[1]
             updatedDoctor == Spread(Spread(existing, data),
                                     [id |-> Get(existing, "id"),
                                      createdAt |-> Get(existing, "createdAt")])
             checked == Doctor_validateRequiredFields(updatedDoctor)
         IN IF ~checked.ok THEN Fail(checked)
            ELSE SaveAndReturn("doctors", id, updatedDoctor)

\* DoctorService.deleteDoctor
deleteDoctor(id) ==
    LET existingDoctor == getDoctor(id) IN
    IF ~existingDoctor.ok THEN Fail(existingDoctor)
    ELSE IF existingDoctor.value = <<>>
         THEN Fail(Throw(PlainError("NotFound", <<"Doctor">>, id)))
    ELSE LET d == delete("doctors", id) IN
         [ok |-> d.ok, err |-> d.err, value |-> <<>>, files |-> d.files]

----------------------------------------------------------------------------
(* AppointmentService *)

AppointmentRequired == <<"patientId", "doctorId", "dateTime", "status">>

validStatuses ==
    {<<"scheduled">>, <<"confirmed">>, <<"completed">>, <<"cancelled">>,
     <<"postponed">>, <<"postpone_requested">>}

\* the postponement sub-record {newDateTime, reason, requestedBy, requestedAt}
Postponement(newDateTime, reason, requestedBy, requestedAt) ==
    <<newDateTime, reason, requestedBy, requestedAt>>

\* AppointmentService.validateRequiredFields
Appointment_validateRequiredFields(data) ==
    LET missingFields == missingFalsy(data, AppointmentRequired) IN
    IF Len(missingFields) > 0
    THEN Throw(PlainError("MissingRequiredFields", missingFields, <<"Appointment">>))
    ELSE IF data.status \notin validStatuses
         THEN Throw(PlainError("InvalidStatus", <<>>, data.status))
    ELSE Ok(<<>>)

\* AppointmentService.validateReferentialIntegrity
validateReferentialIntegrity(patientId, doctorId) ==
    LET patient == getPatient(patientId) IN
    IF ~patient.ok THEN patient
    ELSE IF patient.value = <<>>
         THEN Throw(PlainError("DoesNotExist", <<"Patient">>, patientId))
    ELSE LET doctor == getDoctor(doctorId) IN
         IF ~doctor.ok THEN doctor
         ELSE IF doctor.value = <<>>
              THEN Throw(PlainError("DoesNotExist", <<"Doctor">>, doctorId))
         ELSE Ok(<<>>)

\* a scheduleAppointment that starts every appointment as scheduled
scheduleAppointmentAsScheduled(data, now, random) ==
    LET checked == Appointment_validateRequiredFields(data) IN
    IF ~checked.ok THEN Fail(checked)
    ELSE LET refs == validateReferentialIntegrity(data.patientId, data.doctorId) IN
         IF ~refs.ok THEN Fail(refs)
         ELSE LET id == generateId("appointment", now, random)
                  appointment == Spread(data, [id |-> id, createdAt |-> <<Stamp(now)>>,
                                               status |-> <<"scheduled">>])
              IN SaveAndReturn("appointments", id, appointment)

\* AppointmentService.scheduleAppointment
scheduleAppointment(data, now, random) ==
    LET checked == Appointment_validateRequiredFields(data) IN
    IF ~checked.ok THEN Fail(checked)
    ELSE LET refs == validateReferentialIntegrity(data.patientId, data.doctorId) IN
         IF ~refs.ok THEN Fail(refs)
         ELSE LET id == generateId("appointment", now, random)
                  appointment == Spread(data, [id |-> id, createdAt |-> <<Stamp(now)>>])
              IN SaveAndReturn("appointments", id, appointment)

\* AppointmentService.getAppointment
getAppointment(id) == load("appointments", id)

\* array.filter(entity => entity[field] === value)
FilterBy(entities, field, value) ==
    LET Matches(entity) == Get(entity, field) = value IN SelectSeq(entities, Matches)

\* a getAppointmentsByPatient that returns every appointment
getAppointmentsByPatientUnfiltered(patientId) == loadAll("appointments")

\* AppointmentService.getAppointmentsByPatient
getAppointmentsByPatient(patientId) ==
    LET allAppointments == loadAll("appointments") IN
    IF ~allAppointments.ok THEN allAppointments
    ELSE Ok(FilterBy(allAppointments.value, "patientId", patientId))

\* AppointmentService.getAppointmentsByDoctor
getAppointmentsByDoctor(doctorId) ==
    LET allAppointments == loadAll("appointments") IN
    IF ~allAppointments.ok THEN allAppointments
    ELSE Ok(FilterBy(allAppointments.value, "doctorId", doctorId))

AppointmentNotFound(id) == Throw(PlainError("NotFound", <<"Appointment">>, id))

\* an updateAppointmentStatus that refuses to leave a final status
updateAppointmentStatusGuarded(id, status) ==
    LET existingAppointment == getAppointment(id) IN
    IF ~existingAppointment.ok THEN Fail(existingAppointment)
    ELSE IF existingAppointment.value = <<>> THEN Fail(AppointmentNotFound(id))
    ELSE IF Get(existingAppointment.value[1], "status") \in {<<"cancelled">>, <<"completed">>}
         THEN Fail(Throw(PlainError("CannotChangeStatus", <<>>,
                                    Get(existingAppointment.value[1], "status"))))
    ELSE SaveAndReturn("appointments", id,
                       With(existingAppointment.value[1], "status", status))

\* AppointmentService.updateAppointmentStatus
updateAppointmentStatus(id, status) ==
    LET existingAppointment == getAppointment(id) IN
    IF ~existingAppointment.ok THEN Fail(existingAppointment)
    ELSE IF existingAppointment.value = <<>> THEN Fail(AppointmentNotFound(id))
    ELSE SaveAndReturn("appointments", id,
                       With(existingAppointment.value[1], "status", status))

\* AppointmentService.cancelAppointment
cancelAppointment(id) == updateAppointmentStatus(id, <<"cancelled">>)

\* requestPostponement without the check of the current status
requestPostponementFromAnyStatus(id, newDateTime, reason, now) ==
    LET existingAppointment == getAppointment(id) IN
    IF ~existingAppointment.ok THEN Fail(existingAppointment)
    ELSE IF existingAppointment.value = <<>> THEN Fail(AppointmentNotFound(id))
    ELSE SaveAndReturn("appointments", id,
            Spread(existingAppointment.value[1],
                   [status |-> <<"postpone_requested">>,
                    postponement |->
                       Postponement(newDateTime, reason, <<"doctor">>, <<Stamp(now)>>)]))

\* AppointmentService.requestPostponement
requestPostponement(id, newDateTime, reason, now) ==
    LET existingAppointment == getAppointment(id) IN
    IF ~existingAppointment.ok THEN Fail(existingAppointment)
    ELSE IF existingAppointment.value = <<>> THEN Fail(AppointmentNotFound(id))
    ELSE LET existing == existingAppointment.value[1] IN
         IF Get(existing, "status") \notin {<<"scheduled">>, <<"confirmed">>}
         THEN Fail(Throw(PlainError("CannotPostpone", <<>>, Get(existing, "status"))))
         ELSE SaveAndReturn("appointments", id,
                 Spread(existing,
                        [status |-> <<"postpone_requested">>,
                         postponement |->
                            Postponement(newDateTime, reason, <<"doctor">>,
                                         <<Stamp(now)>>)]))

NoPostponementRequest(id) == Throw(PlainError("NoPostponementRequest", <<>>, id))

PostponedPrefix == "Postponed: "

\* the notes acceptPostponement writes: the reason after the existing notes
NotesAfterAccept(existing) ==
    IF ~Falsy(Get(existing, "notes"))
    THEN existing.notes \o <<NL, NL, PostponedPrefix>> \o existing.postponement[2]
    ELSE <<PostponedPrefix>> \o existing.postponement[2]

\* acceptPostponement that keeps the old date
acceptPostponementKeepingDate(id) ==
    LET existingAppointment == getAppointment(id) IN
    IF ~existingAppointment.ok THEN Fail(existingAppointment)
    ELSE IF existingAppointment.value = <<>> THEN Fail(AppointmentNotFound(id))
    ELSE LET existing == existingAppointment.value[1] IN
         IF \/ Get(existing, "status") # <<"postpone_requested">>
            \/ Falsy(Get(existing, "postponement"))
         THEN Fail(NoPostponementRequest(id))
         ELSE SaveAndReturn("appointments", id,
                 Spread(existing,
                        [status |-> <<"confirmed">>,
                         notes |-> NotesAfterAccept(existing),
                         postponement |-> UNDEF]))

\* AppointmentService.acceptPostponement
acceptPostponement(id) ==
    LET existingAppointment == getAppointment(id) IN
    IF ~existingAppointment.ok THEN Fail(existingAppointment)
    ELSE IF existingAppointment.value = <<>> THEN Fail(AppointmentNotFound(id))
    ELSE LET existing == existingAppointment.value[1] IN
         IF \/ Get(existing, "status") # <<"postpone_requested">>
            \/ Falsy(Get(existing, "postponement"))
         THEN Fail(NoPostponementRequest(id))
         ELSE SaveAndReturn("appointments", id,
                 Spread(existing,
                        [dateTime |-> existing.postponement[1],
                         status |-> <<"confirmed">>,
                         notes |-> NotesAfterAccept(existing),
                         postponement |-> UNDEF]))

\* rejectPostponement that moves the appointment to the proposed date
rejectPostponementTakingDate(id) ==
    LET existingAppointment == getAppointment(id) IN
    IF ~existingAppointment.ok THEN Fail(existingAppointment)
    ELSE IF existingAppointment.value = <<>> THEN Fail(AppointmentNotFound(id))
    ELSE LET existing == existingAppointment.value[1] IN
         IF \/ Get(existing, "status") # <<"postpone_requested">>
            \/ Falsy(Get(existing, "postponement"))
         THEN Fail(NoPostponementRequest(id))
         ELSE SaveAndReturn("appointments", id,
                 Spread(existing,
                        [dateTime |-> existing.postponement[1],
                         status |-> <<"confirmed">>, postponement |-> UNDEF]))

\* AppointmentService.rejectPostponement
rejectPostponement(id) ==
    LET existingAppointment == getAppointment(id) IN
    IF ~existingAppointment.ok THEN Fail(existingAppointment)
    ELSE IF existingAppointment.value = <<>> THEN Fail(AppointmentNotFound(id))
    ELSE LET existing == existingAppointment.value[1] IN
         IF \/ Get(existing, "status") # <<"postpone_requested">>
            \/ Falsy(Get(existing, "postponement"))
         THEN Fail(NoPostponementRequest(id))
         ELSE SaveAndReturn("appointments", id,
                 Spread(existing,
                        [status |-> <<"confirmed">>, postponement |-> UNDEF]))

\* an updateAppointment whose merge lets the payload's id and createdAt through
updateAppointmentTakingIdentity(id, data) ==
    LET existingAppointment == getAppointment(id) IN
    IF ~existingAppointment.ok THEN Fail(existingAppointment)
    ELSE IF existingAppointment.value = <<>> THEN Fail(AppointmentNotFound(id))
    ELSE LET existing == existingAppointment.value[1]
             updatedAppointment == Spread(existing, data)
             checked == Appointment_validateRequiredFields(updatedAppointment)
         IN IF ~checked.ok THEN Fail(checked)
            ELSE LET refs ==
                        IF ~Falsy(Get(data, "patientId")) \/ ~Falsy(Get(data, "doctorId"))
                        THEN validateReferentialIntegrity(updatedAppointment.patientId,
                                                          updatedAppointment.doctorId)
                        ELSE Ok(<<>>)
                 IN IF ~refs.ok THEN Fail(refs)
                    ELSE SaveAndReturn("appointments", id, updatedAppointment)

\* AppointmentService.updateAppointment
updateAppointment(id, data) ==
    LET existingAppointment == getAppointment(id) IN
    IF ~existingAppointment.ok THEN Fail(existingAppointment)
    ELSE IF existingAppointment.value = <<>> THEN Fail(AppointmentNotFound(id))
    ELSE LET existing == existingAppointment.value[1]
             updatedAppointment ==
                Spread(Spread(existing, data),
                       [id |-> Get(existing, "id"),
                        createdAt |-> Get(existing, "createdAt")])
             checked == Appointment_validateRequiredFields(updatedAppointment)
         IN IF ~checked.ok THEN Fail(checked)
            ELSE LET refs ==
                        IF ~Falsy(Get(data, "patientId")) \/ ~Falsy(Get(data, "doctorId"))
                        THEN validateReferentialIntegrity(updatedAppointment.patientId,
                                                          updatedAppointment.doctorId)
                        ELSE Ok(<<>>)
                 IN IF ~refs.ok THEN Fail(refs)
                    ELSE SaveAndReturn("appointments", id, updatedAppointment)

\* AppointmentService.deleteAppointment
deleteAppointment(id) ==
    LET existingAppointment == getAppointment(id) IN
    IF ~existingAppointment.ok THEN Fail(existingAppointment)
    ELSE IF existingAppointment.value = <<>> THEN Fail(AppointmentNotFound(id))
    ELSE LET d == delete("appointments", id) IN
         [ok |-> d.ok, err |-> d.err, value |-> <<>>, files |-> d.files]

----------------------------------------------------------------------------
(* MedicalRecordService *)

RecordRequired == <<"patientId", "doctorId", "diagnosis", "treatment", "notes">>

\* validateRecordData without the check of the doctor reference
validateRecordDataPatientOnly(data) ==
    LET missingFields == missingFalsy(data, RecordRequired) IN
    IF Len(missingFields) > 0
    THEN Throw(PlainError("MissingRequiredFields", missingFields, <<"MedicalRecord">>))
    ELSE IF ~exists("patients", data.patientId)
         THEN Throw(PlainError("DoesNotExist", <<"Patient">>, data.patientId))
    ELSE Ok(<<>>)

\* MedicalRecordService.validateRecordData
validateRecordData(data) ==
    LET missingFields == missingFalsy(data, RecordRequired) IN
    IF Len(missingFields) > 0
    THEN Throw(PlainError("MissingRequiredFields", missingFields, <<"MedicalRecord">>))
    ELSE IF ~exists("patients", data.patientId)
         THEN Throw(PlainError("DoesNotExist", <<"Patient">>, data.patientId))
    ELSE IF ~exists("doctors", data.doctorId)
         THEN Throw(PlainError("DoesNotExist", <<"Doctor">>, data.doctorId))
    ELSE Ok(<<>>)

\* MedicalRecordService.createRecord
createRecord(data, now, random) ==
    LET checked == validateRecordData(data) IN
    IF ~checked.ok THEN Fail(checked)
    ELSE LET id == generateId("medical-record", now, random)
             medicalRecord == Spread(data, [id |-> id, createdAt |-> <<Stamp(now)>>])
         IN SaveAndReturn("medical-records", id, medicalRecord)

\* MedicalRecordService.getRecord
getRecord(id) == load("medical-records", id)

\* MedicalRecordService.getPatientRecords
getPatientRecords(patientId) ==
    LET allRecords == loadAll("medical-records") IN
    IF ~allRecords.ok THEN allRecords
    ELSE Ok(FilterBy(allRecords.value, "patientId", patientId))

\* MedicalRecordService.deleteRecord
deleteRecord(id) ==
    LET existingRecord == getRecord(id) IN
    IF ~existingRecord.ok THEN Fail(existingRecord)
    ELSE IF existingRecord.value = <<>>
         THEN Fail(Throw(PlainError("NotFound", <<"MedicalRecord">>, id)))
    ELSE LET d == delete("medical-records", id) IN
         [ok |-> d.ok, err |-> d.err, value |-> <<>>, files |-> d.files]

----------------------------------------------------------------------------
(* The calls of the services                                               *)

\* the ids under which a collection holds an entity file
StoredIds(collection) ==
    {SubSeq(n, 1, Len(n) - 1) : n \in {m \in DOMAIN files[collection] : endsWithJson(m)}}

\* the stored entity with this id; the file parses
Stored(collection, id) == files[collection][id \o <<JSON_EXT>>].data

\* a service call returns or throws: r is its outcome
Return(op, id, arg, r) ==
    /\ files' = r.files
    /\ last' = Call(op, "none", id, arg, r.ok, r.err, <<>>)
    /\ UNCHANGED <<dirs, clock, readOnly, tasks>>

\* a create call that would take the collection past its bound is left out
Room(collection, r, max) == Cardinality(DOMAIN r.files[collection]) <= max

Init ==
    /\ dirs = {}
    /\ files = NoFiles
    /\ clock = 0
    /\ readOnly = FALSE
    /\ tasks = NoTasks
    /\ last = NoCall

\* createStorageManager + initialize
Initialize ==
    /\ dirs' = initialize
    /\ last' = Call("initialize", "none", <<>>, EmptyObject, TRUE, NoError, <<>>)
    /\ UNCHANGED <<files, clock, readOnly, tasks>>

RegisterPatient(data, random) ==
    LET r == registerPatient(data, clock, random) IN
    Room("patients", r, MaxPatients) /\ Return("registerPatient", <<>>, data, r)

UpdatePatient(id, data) == Return("updatePatient", id, data, updatePatient(id, data))

DeletePatient(id) == Return("deletePatient", id, EmptyObject, deletePatient(id))

RegisterDoctor(data, random) ==
    LET r == registerDoctor(data, clock, random) IN
    Room("doctors", r, MaxDoctors) /\ Return("registerDoctor", <<>>, data, r)

UpdateDoctor(id, data) == Return("updateDoctor", id, data, updateDoctor(id, data))

DeleteDoctor(id) == Return("deleteDoctor", id, EmptyObject, deleteDoctor(id))

ScheduleAppointment(data, random) ==
    LET r == scheduleAppointment(data, clock, random) IN
    Room("appointments", r, MaxAppointments) /\ Return("scheduleAppointment", <<>>, data, r)

UpdateAppointment(id, data) == Return("updateAppointment", id, data, updateAppointment(id, data))

UpdateAppointmentStatus(id, status) ==
    Return("updateAppointmentStatus", id, [status |-> status],
           updateAppointmentStatus(id, status))

CancelAppointment(id) == Return("cancelAppointment", id, EmptyObject, cancelAppointment(id))

\* accepted postponements make the notes grow: the model follows them up to MaxNotes
NotesLength(id) ==
    IF id \in StoredIds("appointments") /\ files["appointments"][id \o <<JSON_EXT>>].valid
       /\ ~Falsy(Get(Stored("appointments", id), "notes"))
    THEN Len(Stored("appointments", id).notes)
    ELSE 0

RequestPostponement(id, newDateTime, reason) ==
    Return("requestPostponement", id, [newDateTime |-> newDateTime, reason |-> reason],
           requestPostponement(id, newDateTime, reason, clock))

AcceptPostponement(id) ==
    /\ NotesLength(id) < MaxNotes
    /\ Return("acceptPostponement", id, EmptyObject, acceptPostponement(id))

RejectPostponement(id) == Return("rejectPostponement", id, EmptyObject, rejectPostponement(id))

DeleteAppointment(id) == Return("deleteAppointment", id, EmptyObject, deleteAppointment(id))

CreateRecord(data, random) ==
    LET r == createRecord(data, clock, random) IN
    Room("medical-records", r, MaxRecords) /\ Return("createRecord", <<>>, data, r)

DeleteRecord(id) == Return("deleteRecord", id, EmptyObject, deleteRecord(id))

\* a query returns or throws: r is its outcome, the store is as it was
Answer(op, id, r) ==
    /\ last' = Call(op, "none", id, EmptyObject, r.ok, r.err, r.value)
    /\ UNCHANGED <<dirs, files, clock, readOnly, tasks>>

GetAppointmentsByPatient(patientId) ==
    Answer("getAppointmentsByPatient", patientId, getAppointmentsByPatient(patientId))

GetAppointmentsByDoctor(doctorId) ==
    Answer("getAppointmentsByDoctor", doctorId, getAppointmentsByDoctor(doctorId))

GetPatientRecords(patientId) ==
    Answer("getPatientRecords", patientId, getPatientRecords(patientId))

----------------------------------------------------------------------------
(* The inputs of the calls *)

PatientData ==
    [name |-> <<"J">>, dateOfBirth |-> <<"1990-01-15">>,
     contactNumber |-> <<"5", "5", "5", "1">>, address |-> <<"M">>]

DoctorData ==
    [name |-> <<"D">>, specialization |-> <<"C">>, contactNumber |-> <<"5", "5", "5", "2">>]

AppointmentData(patientId, doctorId) ==
    [patientId |-> patientId, doctorId |-> doctorId,
     dateTime |-> <<"2024-01-15T10:00">>, status |-> <<"scheduled">>]

RecordData(patientId, doctorId) ==
    [patientId |-> patientId, doctorId |-> doctorId,
     diagnosis |-> <<"H">>, treatment |-> <<"T">>, notes |-> <<"n">>]

\* an id under which nothing is ever stored
NoSuchId == <<"nonexistent">>

\* the ways a field can be missing: absent, null, empty, whitespace only
MissingKinds == {UNDEF, NULL, <<>>, <<WS>>}

\* data with the fields of the set missing in the given way
Lacking(data, fields, kind) ==
    IF kind = UNDEF THEN [k \in (DOMAIN data) \ fields |-> data[k]]
    ELSE [k \in DOMAIN data |-> IF k \in fields THEN kind ELSE data[k]]

FieldSet(requiredFields) == {requiredFields[i] : i \in 1..Len(requiredFields)}

\* data, and data with every non-empty set of required fields missing
Payloads(data, requiredFields) ==
    {data} \cup
    {Lacking(data, fields, kind) :
        fields \in (SUBSET FieldSet(requiredFields)) \ {{}}, kind \in MissingKinds}

\* the ids a caller may pass for a collection: the stored ones, a stored one
\* with whitespace around it, and one that is not stored
IdInputs(collection) ==
    StoredIds(collection) \cup {<<WS>> \o id : id \in StoredIds(collection)}
        \cup {NoSuchId}

\* one id per collection for the payloads that lack fields
SomeId(collection) ==
    IF StoredIds(collection) = {} THEN NoSuchId
    ELSE CHOOSE id \in StoredIds(collection) : TRUE

----------------------------------------------------------------------------
(* The creation of entities from complete and incomplete payloads          *)

NextCreate ==
    \/ Initialize
    \/ \E data \in Payloads(PatientData, PatientRequired) :
          RegisterPatient(data, FirstSuffix)
    \/ \E data \in Payloads(DoctorData, DoctorRequired) :
          RegisterDoctor(data, FirstSuffix)
    \/ \E data \in Payloads(AppointmentData(SomeId("patients"), SomeId("doctors")),
                            AppointmentRequired) :
          ScheduleAppointment(data, FirstSuffix)
    \/ \E data \in Payloads(RecordData(SomeId("patients"), SomeId("doctors")),
                            RecordRequired) :
          CreateRecord(data, FirstSuffix)

SpecCreate == Init /\ [][NextCreate]_vars

----------------------------------------------------------------------------
(* References: appointments and medical records created with patient and   *)
(* doctor ids that do and do not resolve, while patients and doctors come   *)
(* and go                                                                  *)

\* update payloads that change one reference of an appointment
ReferenceUpdates ==
    {[patientId |-> p] : p \in IdInputs("patients")}
        \cup {[doctorId |-> d] : d \in IdInputs("doctors")}

NextRefs ==
    \/ Initialize
    \/ \E random \in RandomSuffixes : RegisterPatient(PatientData, random)
    \/ \E random \in RandomSuffixes : RegisterDoctor(DoctorData, random)
    \/ \E p \in IdInputs("patients"), d \in IdInputs("doctors") :
          ScheduleAppointment(AppointmentData(p, d), FirstSuffix)
    \/ \E p \in IdInputs("patients"), d \in IdInputs("doctors") :
          CreateRecord(RecordData(p, d), FirstSuffix)
    \/ \E id \in StoredIds("patients") : DeletePatient(id)
    \/ \E id \in StoredIds("doctors") : DeleteDoctor(id)
    \/ \E id \in StoredIds("medical-records") : DeleteRecord(id)
    \/ \E id \in StoredIds("appointments"), data \in ReferenceUpdates :
          UpdateAppointment(id, data)

SpecRefs == Init /\ [][NextRefs]_vars

----------------------------------------------------------------------------
(* Queries by reference: two appointments and a medical record of patients *)
(* that come and go, asked for by patient and by doctor                     *)

\* the ids a caller asks for: every id a patient or doctor can have, one with
\* whitespace in front, and one that nothing references
QueryIds(entityType) ==
    {generateId(entityType, 0, random) : random \in RandomSuffixes}
        \cup {<<WS>> \o generateId(entityType, 0, FirstSuffix), NoSuchId}

NextQuery ==
    \/ Initialize
    \/ \E random \in RandomSuffixes : RegisterPatient(PatientData, random)
    \/ \E random \in RandomSuffixes : RegisterDoctor(DoctorData, random)
    \/ \E id \in StoredIds("patients") : DeletePatient(id)
    \/ \E id \in StoredIds("doctors") : DeleteDoctor(id)
    \/ \E p \in StoredIds("patients"), d \in StoredIds("doctors"), random \in RandomSuffixes :
          ScheduleAppointment(AppointmentData(p, d), random)
    \/ \E p \in StoredIds("patients"), d \in StoredIds("doctors") :
          CreateRecord(RecordData(p, d), FirstSuffix)
    \/ \E p \in QueryIds("patient") : GetAppointmentsByPatient(p)
    \/ \E d \in QueryIds("doctor") : GetAppointmentsByDoctor(d)
    \/ \E p \in QueryIds("patient") : GetPatientRecords(p)

SpecQuery == Init /\ [][NextQuery]_vars

----------------------------------------------------------------------------
(* The life of an appointment: every update, transition and delete call of *)
(* the patient, doctor and appointment services                            *)

InvalidStatus == <<"invalid-status">>

NewDateTime == <<"2024-02-20T09:00">>

\* the ids a caller passes to an update, transition or delete call
TargetIds(collection) == StoredIds(collection) \cup {NoSuchId}

AppointmentInputs ==
    LET data == AppointmentData(SomeId("patients"), SomeId("doctors")) IN
    {data, With(data, "status", <<"completed">>), With(data, "status", InvalidStatus)}

\* values of id and createdAt that no create call assigns
OtherId == <<"other-id">>
OtherCreatedAt == <<"1999-01-01T00:00">>

\* a payload that carries id and createdAt, as an untyped caller can send
Forged(data) == Spread(data, [id |-> OtherId, createdAt |-> OtherCreatedAt])

PatientUpdates ==
    {[contactNumber |-> <<"5", "5", "5", "9">>], [contactNumber |-> <<"x">>],
     Forged([address |-> <<"M">>])}

DoctorUpdates == {[specialization |-> <<"N">>], [name |-> <<>>], Forged(EmptyObject)}

AppointmentUpdates ==
    {[dateTime |-> NewDateTime], [dateTime |-> <<>>], [status |-> InvalidStatus],
     [doctorId |-> NoSuchId], Forged(EmptyObject)}

StatusInputs == validStatuses \cup {InvalidStatus}

Next ==
    \/ Initialize
    \/ RegisterPatient(PatientData, FirstSuffix)
    \/ RegisterDoctor(DoctorData, FirstSuffix)
    \/ \E data \in AppointmentInputs : ScheduleAppointment(data, FirstSuffix)
    \/ \E id \in TargetIds("patients"), data \in PatientUpdates : UpdatePatient(id, data)
    \/ \E id \in TargetIds("doctors"), data \in DoctorUpdates : UpdateDoctor(id, data)
    \/ \E id \in TargetIds("appointments"), data \in AppointmentUpdates :
          UpdateAppointment(id, data)
    \/ \E id \in TargetIds("appointments"), status \in StatusInputs :
          UpdateAppointmentStatus(id, status)
    \/ \E id \in TargetIds("appointments") : CancelAppointment(id)
    \/ \E id \in TargetIds("appointments") : RequestPostponement(id, NewDateTime, <<"r">>)
    \/ \E id \in TargetIds("appointments") : AcceptPostponement(id)
    \/ \E id \in TargetIds("appointments") : RejectPostponement(id)
    \/ \E id \in TargetIds("patients") : DeletePatient(id)
    \/ \E id \in TargetIds("doctors") : DeleteDoctor(id)
    \/ \E id \in TargetIds("appointments") : DeleteAppointment(id)

Spec == Init /\ [][Next]_vars

----------------------------------------------------------------------------
(* Write failures: the data directory turns read-only and writable again   *)
(* under the calls that save                                               *)

\* the file system is remounted read-only, or writable again
Remount ==
    /\ "root" \in dirs
    /\ readOnly' = ~readOnly
    /\ last' = Call("remount", "none", <<>>, EmptyObject, TRUE, NoError, <<>>)
    /\ UNCHANGED <<dirs, files, clock, tasks>>

NextFailure ==
    \/ Initialize
    \/ Remount
    \/ RegisterPatient(PatientData, FirstSuffix)
    \/ RegisterDoctor(DoctorData, FirstSuffix)
    \/ ScheduleAppointment(AppointmentData(SomeId("patients"), SomeId("doctors")), FirstSuffix)
    \/ CreateRecord(RecordData(SomeId("patients"), SomeId("doctors")), FirstSuffix)
    \/ \E id \in StoredIds("patients") :
          UpdatePatient(id, [contactNumber |-> <<"5", "5", "5", "9">>])
    \/ \E id \in StoredIds("doctors") : UpdateDoctor(id, [specialization |-> <<"N">>])
    \/ \E id \in StoredIds("appointments") : UpdateAppointment(id, [notes |-> <<"n">>])
    \/ \E id \in StoredIds("appointments") : UpdateAppointmentStatus(id, <<"confirmed">>)
    \/ \E id \in StoredIds("appointments") : CancelAppointment(id)
    \/ \E id \in StoredIds("appointments") : RequestPostponement(id, NewDateTime, <<"r">>)
    \/ \E id \in StoredIds("appointments") : AcceptPostponement(id)
    \/ \E id \in StoredIds("appointments") : RejectPostponement(id)

SpecFailure == Init /\ [][NextFailure]_vars

----------------------------------------------------------------------------
(* Calls in flight. A service call runs up to its first await, and every    *)
(* other call may run between two of its awaits. fs.writeFile is itself two *)
(* steps: the file is opened, which truncates it, and the text is written   *)
(* from offset 0 through the writer's own descriptor.                       *)

\* the file just opened for writing: no text yet
EmptyText == [valid |-> FALSE, data |-> [empty |-> <<>>]]

\* n characters that are the text of one writer followed by the tail of the
\* longer text of another: it does not parse
MixedText(n) == [valid |-> FALSE, data |-> [mixture |-> [i \in 1..n |-> "x"]]]

\* the number of characters of the values of an object
RECURSIVE ObjectSize(_, _)
ObjectSize(obj, keys) ==
    IF keys = {} THEN 0
    ELSE LET k == CHOOSE x \in keys : TRUE
         IN Len(obj[k]) + ObjectSize(obj, keys \ {k})

\* the length of a text
TextSize(text) ==
    IF text = EmptyText THEN 0
    ELSE IF "mixture" \in DOMAIN text.data THEN Len(text.data.mixture)
    ELSE ObjectSize(text.data, DOMAIN text.data)

\* write(fd, text) at offset 0 of a file that holds current
WriteAtStart(current, text) ==
    IF TextSize(current) > TextSize(text) THEN MixedText(TextSize(current)) ELSE text

\* a call returns or throws at the end of a step
Finish(t, ok, err) ==
    /\ tasks' = [tasks EXCEPT ![t] = Idle]
    /\ last' = Call(tasks[t].op, tasks[t].coll, tasks[t].id, tasks[t].arg, ok, err, <<>>)

\* a call is made and runs to the await of its save: r is the outcome the
\* call has when nothing runs between its awaits
BeginSaving(t, op, collection, id, arg, r) ==
    /\ tasks[t].pc = "idle"
    /\ IF r.ok
       THEN /\ tasks' = [tasks EXCEPT ![t] =
                            Task("open", op, collection, r.value[1].id, arg, r.value[1],
                                 <<>>, <<>>)]
            /\ UNCHANGED last
       ELSE /\ last' = Call(op, collection, id, arg, FALSE, r.err, <<>>)
            /\ UNCHANGED tasks
    /\ UNCHANGED <<dirs, files, clock, readOnly>>

\* fs.writeFile, first half: open(path, 'w') creates or truncates the file
SaveOpen(t) ==
    LET path == getFilePath(tasks[t].coll, tasks[t].id) IN
    /\ tasks[t].pc = "open"
    /\ IF path[1] \in dirs /\ ~IsDirectory(path) /\ ~readOnly
       THEN /\ files' = WriteFile(path, EmptyText)
            /\ tasks' = [tasks EXCEPT ![t].pc = "write"]
            /\ UNCHANGED last
       ELSE /\ Finish(t, FALSE, StorageError("save", path))
            /\ UNCHANGED files
    /\ UNCHANGED <<dirs, clock, readOnly>>

\* fs.writeFile, second half: the text goes to offset 0 of the opened file,
\* which is no longer in the directory if it was unlinked since
SaveWrite(t) ==
    LET path == getFilePath(tasks[t].coll, tasks[t].id) IN
    /\ tasks[t].pc = "write"
    /\ files' = IF FileExists(path)
                THEN WriteFile(path, WriteAtStart(files[path[1]][path[2]],
                                                  stringify(tasks[t].entity)))
                ELSE files
    /\ Finish(t, TRUE, NoError)
    /\ UNCHANGED <<dirs, clock, readOnly>>

BeginUpdateDoctor(t, id, data) ==
    BeginSaving(t, "updateDoctor", "doctors", id, data, updateDoctor(id, data))

BeginUpdatePatient(t, id, data) ==
    BeginSaving(t, "updatePatient", "patients", id, data, updatePatient(id, data))

\* two updates of one field, of different lengths, and one of another field
RaceDoctorUpdates ==
    {[specialization |-> <<"N">>], [specialization |-> <<"N", "e", "u", "r", "o">>],
     [contactNumber |-> <<"5", "5", "5", "9">>]}

RacePatientUpdates ==
    {[address |-> <<"A">>], [address |-> <<"A", "v", "e">>],
     [contactNumber |-> <<"5", "5", "5", "9">>]}

NextRace ==
    \/ Initialize
    \/ RegisterPatient(PatientData, FirstSuffix)
    \/ RegisterDoctor(DoctorData, FirstSuffix)
    \/ \E t \in TaskIds, id \in StoredIds("doctors"), data \in RaceDoctorUpdates :
          BeginUpdateDoctor(t, id, data)
    \/ \E t \in TaskIds, id \in StoredIds("patients"), data \in RacePatientUpdates :
          BeginUpdatePatient(t, id, data)
    \/ \E t \in TaskIds : SaveOpen(t)
    \/ \E t \in TaskIds : SaveWrite(t)

SpecRace == Init /\ [][NextRace]_vars

----------------------------------------------------------------------------
(* loadAll in flight: the directory is listed, then each listed file is     *)
(* read in its own step, and other calls run between the steps.             *)

\* what the scan has logged: the names listed, and the names it skipped
\* because the file was gone (ENOENT) or could not be read or parsed
ScanLog(listed, gone, unreadable) ==
    [listed |-> listed, gone |-> gone, unreadable |-> unreadable]

\* the files as the listing found them, kept to tell which of them no step of
\* the scan has seen changed
ListedFiles(collection) ==
    [stable |-> {[name |-> n, text |-> files[collection][n]] :
                    n \in DOMAIN files[collection]}]

StillStable(collection, listed) ==
    [stable |-> {s \in listed.stable :
                    /\ s.name \in DOMAIN files[collection]
                    /\ files[collection][s.name] = s.text}]

\* a read of loadAll that lets the failure of readFile or JSON.parse out
readListedOrThrow(collection, file, acc) ==
    IF ~endsWithJson(file) THEN Ok(acc)
    ELSE IF ~FileExists(<<collection, file>>) \/ IsDirectory(<<collection, file>>)
         THEN Throw(StorageError("loadAll", <<collection, file>>))
    ELSE IF ~files[collection][file].valid
         THEN Throw(AppError("JSON_PARSE_ERROR", "CorruptedDataFile", <<>>, <<>>))
    ELSE Ok(Append(acc, files[collection][file].data))

\* one turn of the loop of loadAll: readFile and JSON.parse inside try/catch
readListed(collection, file, acc) ==
    IF /\ endsWithJson(file)
       /\ FileExists(<<collection, file>>)
       /\ files[collection][file].valid
    THEN Ok(Append(acc, files[collection][file].data))
    ELSE Ok(acc)

\* loadAll is called and lists the directory
BeginLoadAll(t, collection) ==
    LET listing == readdir(DOMAIN files[collection]) IN
    /\ tasks[t].pc = "idle"
    /\ IF collection \in dirs /\ listing # <<>>
       THEN /\ tasks' = [tasks EXCEPT ![t] =
                            Task("read", "loadAll", collection, <<>>,
                                 ScanLog(listing, <<>>, <<>>), ListedFiles(collection),
                                 listing, <<>>)]
            /\ UNCHANGED last
       ELSE /\ last' = Call("loadAll", collection, <<>>, ScanLog(<<>>, <<>>, <<>>),
                            TRUE, NoError, <<>>)
            /\ UNCHANGED tasks
    /\ UNCHANGED <<dirs, files, clock, readOnly>>

\* the next listed file is read; after the last one loadAll returns
ReadListed(t) ==
    LET c == tasks[t].coll
        file == Head(tasks[t].listing)
        r == readListed(c, file, tasks[t].acc)
        log == tasks[t].arg
        logged == IF ~endsWithJson(file) \/ (r.ok /\ r.value # tasks[t].acc) THEN log
                  ELSE IF ~FileExists(<<c, file>>)
                       THEN [log EXCEPT !.gone = Append(@, file)]
                  ELSE [log EXCEPT !.unreadable = Append(@, file)]
    IN
    /\ tasks[t].pc = "read"
    /\ IF ~r.ok
       THEN /\ tasks' = [tasks EXCEPT ![t] = Idle]
            /\ last' = Call("loadAll", c, <<>>, logged, FALSE, r.err, <<>>)
       ELSE IF Tail(tasks[t].listing) = <<>>
       THEN /\ tasks' = [tasks EXCEPT ![t] = Idle]
            /\ last' = Call("loadAll", c, <<>>, logged, TRUE, NoError, r.value)
       ELSE /\ tasks' = [tasks EXCEPT ![t] =
                            [@ EXCEPT !.listing = Tail(@), !.acc = r.value,
                                      !.arg = logged,
                                      !.entity = StillStable(c, @)]]
            /\ UNCHANGED last
    /\ UNCHANGED <<dirs, files, clock, readOnly>>

NextScan ==
    \/ StoreInitialize
    \/ \E id \in StoreIds, v \in StoreValues : StoreSave("patients", id, v)
    \/ \E id \in StoreIds : StoreDelete("patients", id)
    \/ \E n \in DOMAIN files["patients"] : ForeignWrite("patients", n, CorruptText)
    \/ \E t \in TaskIds : tasks = NoTasks /\ BeginLoadAll(t, "patients")
    \/ \E t \in TaskIds : ReadListed(t)

SpecScan == InitStore /\ [][NextScan]_vars

----------------------------------------------------------------------------
(* Start-up on a data directory that exists already, wholly or in part.     *)

\* loadAllData: the four collections are loaded, in directories ds; a file
\* that cannot be read or parsed is skipped by loadAll
loadAllData(ds) ==
    wrapAsync(Ok([c \in Collections |->
                    IF c \in ds THEN Len(loadAllLoop(c, readdir(DOMAIN files[c]))) ELSE 0]))

\* initializeSystem: storageManager.initialize(), the services, loadAllData
initializeSystem == wrapAsync(loadAllData(initialize))

\* fs.mkdir(path, { recursive: true }) by another program, or by an earlier
\* run that stopped half way
ForeignMkdir(d) ==
    /\ dirs' = dirs \cup {"root", d}
    /\ last' = Call("mkdir", d, <<>>, EmptyObject, TRUE, NoError, <<>>)
    /\ UNCHANGED <<files, clock, readOnly, tasks>>

InitializeSystem ==
    /\ dirs' = initialize
    /\ last' = Call("initializeSystem", "none", <<>>, EmptyObject,
                    initializeSystem.ok, initializeSystem.err, <<>>)
    /\ UNCHANGED <<files, clock, readOnly, tasks>>

NextInit ==
    \/ \E d \in {"root"} \cup Collections : ForeignMkdir(d)
    \/ StoreInitialize
    \/ InitializeSystem
    \/ \E c \in StoreCollections, id \in StoreIds, v \in StoreValues : StoreSave(c, id, v)
    \/ \E c \in StoreCollections, id \in StoreIds : StoreLoad(c, id)
    \/ \E c \in StoreCollections :
          \E n \in DOMAIN files[c] : ForeignWrite(c, n, CorruptText)

SpecInit == InitStore /\ [][NextInit]_vars

----------------------------------------------------------------------------
(* Identifiers: calls of generateId in the same and in later milliseconds,  *)
(* with equal and with different draws of Math.random.                      *)

\* Date.now() moves on
Tick ==
    /\ clock < MaxClock
    /\ clock' = clock + 1
    /\ last' = Call("tick", "none", <<>>, EmptyObject, TRUE, NoError, <<>>)
    /\ UNCHANGED <<dirs, files, readOnly, tasks>>

GenerateId(entityType, random) ==
    /\ last' = Call("generateId", entityType, <<>>, EmptyObject, TRUE, NoError,
                    <<generateId(entityType, clock, random)>>)
    /\ UNCHANGED <<dirs, files, clock, readOnly, tasks>>

\* two patients that differ in their name
TwoPatients == {PatientData, [PatientData EXCEPT !.name = <<"K">>]}

\* registerPatient with room for a second patient
RegisterNextPatient(data, random) ==
    LET r == registerPatient(data, clock, random) IN
    Room("patients", r, MaxFiles) /\ Return("registerPatient", <<>>, data, r)

NextIds ==
    \/ Initialize
    \/ Tick
    \/ \E entityType \in DOMAIN ENTITY_PREFIXES, random \in RandomSuffixes :
          GenerateId(entityType, random)
    \/ \E data \in TwoPatients, random \in RandomSuffixes : RegisterNextPatient(data, random)

SpecIds == Init /\ [][NextIds]_vars

----------------------------------------------------------------------------
(* Creating an appointment or a medical record while the patient or the     *)
(* doctor it names is deleted: the referential check, then the save.        *)

BeginScheduleAppointment(t, data, random) ==
    BeginSaving(t, "scheduleAppointment", "appointments", <<>>, data,
                scheduleAppointment(data, clock, random))

BeginCreateRecord(t, data, random) ==
    BeginSaving(t, "createRecord", "medical-records", <<>>, data,
                createRecord(data, clock, random))

NextOrphan ==
    \/ Initialize
    \/ RegisterPatient(PatientData, FirstSuffix)
    \/ RegisterDoctor(DoctorData, FirstSuffix)
    \/ \E id \in StoredIds("patients") : DeletePatient(id)
    \/ \E id \in StoredIds("doctors") : DeleteDoctor(id)
    \/ \E t \in TaskIds, p \in StoredIds("patients"), d \in StoredIds("doctors") :
          BeginScheduleAppointment(t, AppointmentData(p, d), FirstSuffix)
    \/ \E t \in TaskIds, p \in StoredIds("patients"), d \in StoredIds("doctors") :
          BeginCreateRecord(t, RecordData(p, d), FirstSuffix)
    \/ \E t \in TaskIds : SaveOpen(t)
    \/ \E t \in TaskIds : SaveWrite(t)

SpecOrphan == Init /\ [][NextOrphan]_vars

----------------------------------------------------------------------------
(* Calls on one appointment in flight together: each loads the appointment, *)
(* decides on the status it loaded, and saves after other calls have run.   *)

BeginRequestPostponement(t, id, newDateTime, reason) ==
    BeginSaving(t, "requestPostponement", "appointments", id,
                [newDateTime |-> newDateTime, reason |-> reason],
                requestPostponement(id, newDateTime, reason, clock))

BeginAcceptPostponement(t, id) ==
    /\ NotesLength(id) < MaxNotes
    /\ BeginSaving(t, "acceptPostponement", "appointments", id, EmptyObject,
                   acceptPostponement(id))

BeginRejectPostponement(t, id) ==
    BeginSaving(t, "rejectPostponement", "appointments", id, EmptyObject,
                rejectPostponement(id))

BeginCancelAppointment(t, id) ==
    BeginSaving(t, "cancelAppointment", "appointments", id, EmptyObject,
                cancelAppointment(id))

BeginUpdateAppointmentStatus(t, id, status) ==
    BeginSaving(t, "updateAppointmentStatus", "appointments", id, [status |-> status],
                updateAppointmentStatus(id, status))

NextStatusRace ==
    \/ Initialize
    \/ RegisterPatient(PatientData, FirstSuffix)
    \/ RegisterDoctor(DoctorData, FirstSuffix)
    \/ \E p \in StoredIds("patients"), d \in StoredIds("doctors") :
          ScheduleAppointment(AppointmentData(p, d), FirstSuffix)
    \/ \E t \in TaskIds, id \in StoredIds("appointments") :
          BeginRequestPostponement(t, id, NewDateTime, <<"r">>)
    \/ \E t \in TaskIds, id \in StoredIds("appointments") : BeginAcceptPostponement(t, id)
    \/ \E t \in TaskIds, id \in StoredIds("appointments") : BeginRejectPostponement(t, id)
    \/ \E t \in TaskIds, id \in StoredIds("appointments") : BeginCancelAppointment(t, id)
    \/ \E t \in TaskIds, id \in StoredIds("appointments") :
          BeginUpdateAppointmentStatus(t, id, <<"completed">>)
    \/ \E t \in TaskIds : SaveOpen(t)
    \/ \E t \in TaskIds : SaveWrite(t)

SpecStatusRace == Init /\ [][NextStatusRace]_vars

----------------------------------------------------------------------------
(* The two referential checks on the same store: scheduleAppointment and    *)
(* createRecord with the same references, patient and doctor files that     *)
(* parse and that do not.                                                   *)

NextChecks ==
    \/ Initialize
    \/ RegisterPatient(PatientData, FirstSuffix)
    \/ RegisterDoctor(DoctorData, FirstSuffix)
    \/ \E c \in {"patients", "doctors"} :
          \E n \in DOMAIN files[c] : ForeignWrite(c, n, CorruptText)
    \/ \E p \in IdInputs("patients"), d \in IdInputs("doctors") :
          ScheduleAppointment(AppointmentData(p, d), FirstSuffix)
    \/ \E p \in IdInputs("patients"), d \in IdInputs("doctors") :
          CreateRecord(RecordData(p, d), FirstSuffix)

SpecChecks == Init /\ [][NextChecks]_vars

----------------------------------------------------------------------------
(* sanitizeString on its own, and the ids updatePatient and deletePatient   *)
(* pass through it.                                                         *)

\* the strings of at most MaxLen characters that are a space, a control
\* character or a letter
SanitizeInputs ==
    UNION {[1..n -> {WS, CTRL, "a"}] : n \in 0..MaxLen}

SanitizeString(input) ==
    /\ last' = Call("sanitizeString", "none", <<>>, [input |-> input], TRUE, NoError,
                    <<sanitizeString(input)>>)
    /\ UNCHANGED <<dirs, files, clock, readOnly, tasks>>

\* the id registerPatient gives, as a caller may pass it: as it is, with a
\* space in front, and with a control character and a space in front
DressedIds ==
    LET id == generateId("patient", clock, FirstSuffix)
    IN {id, <<WS>> \o id, <<CTRL, WS>> \o id}

NextSanitize ==
    \/ Initialize
    \/ RegisterPatient(PatientData, FirstSuffix)
    \/ \E input \in SanitizeInputs : SanitizeString(input)
    \/ \E id \in DressedIds : UpdatePatient(id, [address |-> <<"A">>])
    \/ \E id \in DressedIds : DeletePatient(id)

SpecSanitize == Init /\ [][NextSanitize]_vars

----------------------------------------------------------------------------
(* Partial updates of patients and doctors: payloads that name one or two   *)
(* fields, values with whitespace around them, an email set and cleared    *)

Email == <<"j", "@", "e", ".", "c">>

PartialPatientUpdates ==
    {[contactNumber |-> <<"5", "5", "5", "9">>, email |-> Email],
     [name |-> <<WS, "K", WS>>],
     [email |-> <<>>],
     [name |-> <<>>],
     Forged([address |-> <<"M">>])}

PartialDoctorUpdates ==
    {[specialization |-> <<"S">>, email |-> Email],
     [name |-> <<WS, "B">>],
     [email |-> UNDEF],
     [name |-> <<>>],
     Forged(EmptyObject)}

NextUpdate ==
    \/ Initialize
    \/ RegisterPatient(PatientData, FirstSuffix)
    \/ RegisterDoctor(DoctorData, FirstSuffix)
    \/ \E id \in IdInputs("patients"), data \in PartialPatientUpdates : UpdatePatient(id, data)
    \/ \E id \in IdInputs("doctors"), data \in PartialDoctorUpdates : UpdateDoctor(id, data)

SpecUpdate == Init /\ [][NextUpdate]_vars

----------------------------------------------------------------------------
(* Referential integrity of the create calls *)

\* the reference of a payload names no stored entity: no file {id}.json
Unresolved(collection, id) == getFilePath(collection, id)[2] \notin DOMAIN files[collection]

\* C1: scheduleAppointment called with a patientId that is not the id of a
\* stored patient, or a doctorId that is not the id of a stored doctor, is
\* rejected, and the appointments collection is the same after the call
C1_ScheduleRejectsUnresolvedReference ==
    [][(/\ last'.op = "scheduleAppointment"
        /\ \/ Unresolved("patients", last'.arg.patientId)
           \/ Unresolved("doctors", last'.arg.doctorId))
       => (~last'.ok /\ files'["appointments"] = files["appointments"])]_vars

\* C2: createRecord called with a patientId or doctorId for which no stored
\* patient or doctor exists is rejected and writes nothing
C2_CreateRecordRejectsUnresolvedReference ==
    [][(/\ last'.op = "createRecord"
        /\ \/ Unresolved("patients", last'.arg.patientId)
           \/ Unresolved("doctors", last'.arg.doctorId))
       => (~last'.ok /\ files' = files)]_vars

\* a record is stored, and a createRecord call naming a stored patient and
\* a doctor that is not stored has just been rejected
C2_Witness ==
    /\ last.op = "createRecord"
    /\ ~last.ok
    /\ ~Unresolved("patients", last.arg.patientId)
    /\ Unresolved("doctors", last.arg.doctorId)
    /\ StoredIds("medical-records") # {}

----------------------------------------------------------------------------
(* The store: loadAll and the save/load round trip *)

\* the .json files of a collection whose text parses
Parseable(collection) ==
    {n \in DOMAIN files[collection] : endsWithJson(n) /\ files[collection][n].valid}

\* the .json files of a collection whose text does not parse
Corrupted(collection) ==
    {n \in DOMAIN files[collection] :
        /\ endsWithJson(n)
        /\ ~files[collection][n].valid
        /\ files[collection][n] # DirectoryEntry}

Occurrences(seq, v) == Cardinality({i \in 1..Len(seq) : seq[i] = v})

\* C3: loadAll of a collection holding K parseable entity files and any
\* number of .json files that do not parse returns exactly the K parseable
\* entities, each once, and does not raise
C3_LoadAllReturnsParseable ==
    last.op = "loadAll" =>
        /\ last.ok
        /\ Len(last.ret) = Cardinality(Parseable(last.coll))
        /\ \A n \in Parseable(last.coll) :
              Occurrences(last.ret, files[last.coll][n].data) =
                 Cardinality({m \in Parseable(last.coll) :
                                 files[last.coll][m].data = files[last.coll][n].data})

\* loadAll has returned the one parseable entity of a collection that also
\* holds a .json file that does not parse
C3_Witness ==
    /\ last.op = "loadAll"
    /\ Corrupted(last.coll) # {}
    /\ Parseable(last.coll) # {}
    /\ Len(last.ret) = Cardinality(Parseable(last.coll))

\* a value as deep equality sees it: a property holding undefined counts
\* as an absent property
Defined(v) == [k \in {f \in DOMAIN v : v[f] # UNDEF} |-> v[k]]

\* a call that writes or removes the file of this collection and id
WritesTo(call, collection, id) ==
    /\ call.op \in {"save", "delete", "foreign"}
    /\ call.coll = collection
    /\ call.id \in {id, id \o <<JSON_EXT>>}

\* C4: save(collection, id, v) followed by load(collection, id) returns a
\* value equal to v, whatever was saved under the id before, and the value
\* loaded stays the same until the next write to that id
C4_SaveLoadRoundTrip ==
    [][\A c \in Collections, id \in StoreIds :
          /\ \A v \in StoreValues :
                (last' = Call("save", c, id, v, TRUE, NoError, <<>>))
                   => load(c, id)' = Ok(<<Defined(v)>>)
          /\ ~WritesTo(last', c, id) => load(c, id)' = load(c, id)]_vars

\* a value with an undefined property has been saved beside another file
\* of the collection, and load returns it without that property
C4_Witness ==
    /\ last.op = "save"
    /\ last.ok
    /\ "email" \in DOMAIN last.arg /\ last.arg.email = UNDEF
    /\ load(last.coll, last.id) = Ok(<<[name |-> last.arg.name]>>)
    /\ \E c \in Collections : Cardinality(DOMAIN files[c]) > 1

----------------------------------------------------------------------------
(* Required fields of the create calls *)

CreateCalls == {"registerPatient", "registerDoctor", "scheduleAppointment", "createRecord"}

\* the required fields of the entity a create call makes
RequiredOf(op) ==
    CASE op = "registerPatient" -> FieldSet(PatientRequired)
      [] op = "registerDoctor" -> FieldSet(DoctorRequired)
      [] op = "scheduleAppointment" -> FieldSet(AppointmentRequired)
      [] op = "createRecord" -> FieldSet(RecordRequired)

\* the field is absent, null, the empty string or whitespace only
IsMissing(data, field) ==
    \/ field \notin DOMAIN data
    \/ data[field] \in {UNDEF, NULL}
    \/ \A i \in 1..Len(data[field]) : data[field][i] \in {WS, NL}

MissingOf(op, data) == {field \in RequiredOf(op) : IsMissing(data, field)}

\* C6: a create call whose payload lacks a non-empty set of required
\* fields (missing, null, empty or whitespace-only) is rejected with one
\* failure that names exactly the lacking fields, and nothing is persisted
C6_CreateNamesAllMissingFields ==
    [][(last'.op \in CreateCalls /\ MissingOf(last'.op, last'.arg) # {})
       => /\ ~last'.ok
          /\ last'.err.what = "MissingRequiredFields"
          /\ FieldSet(last'.err.names) = MissingOf(last'.op, last'.arg)
          /\ Len(last'.err.names) = Cardinality(MissingOf(last'.op, last'.arg))
          /\ files' = files]_vars

\* scheduleAppointment has been rejected for a payload that lacks two or
\* more required fields while the patient and the doctor it names are stored
C6_Witness ==
    /\ last.op = "scheduleAppointment"
    /\ ~last.ok
    /\ Cardinality(MissingOf(last.op, last.arg)) >= 2
    /\ Len(last.err.names) >= 2
    /\ "patientId" \in DOMAIN last.arg /\ last.arg.patientId \in StoredIds("patients")
    /\ "doctorId" \in DOMAIN last.arg /\ last.arg.doctorId \in StoredIds("doctors")

----------------------------------------------------------------------------
(* Failed calls and the appointment state machine *)

ModifyingCalls ==
    {"updatePatient", "updateDoctor", "updateAppointment", "updateAppointmentStatus",
     "cancelAppointment", "requestPostponement", "acceptPostponement",
     "rejectPostponement", "deletePatient", "deleteDoctor", "deleteAppointment"}

\* C5: an update, transition or delete call that fails leaves every
\* collection of the store as it was
C5_FailedCallChangesNothing ==
    [][(last'.op \in ModifyingCalls /\ ~last'.ok) => (files' = files /\ dirs' = dirs)]_vars

\* acceptPostponement has failed on a stored appointment that has no
\* pending request
C5_Witness ==
    /\ last.op = "acceptPostponement"
    /\ ~last.ok
    /\ last.id \in StoredIds("appointments")
    /\ Get(Stored("appointments", last.id), "status") # <<"postpone_requested">>

\* the stored appointment before and after the step
Before(id) == files["appointments"][id \o <<JSON_EXT>>].data
After(id) == files'["appointments"][id \o <<JSON_EXT>>].data

\* the step is a call of op on a stored appointment
CallOn(op, id) == last'.op = op /\ last'.id = id /\ id \in StoredIds("appointments")

\* C7: requestPostponement succeeds only from scheduled or confirmed; on
\* success the stored status is postpone_requested and the postponement
\* record holds the new date, the reason, doctor and the time of the call;
\* from any other status it fails naming the status and changes nothing
C7_RequestPostponement ==
    [][/\ (last'.op = "requestPostponement" /\ last'.ok)
            => last'.id \in StoredIds("appointments")
       /\ \A id \in StoredIds("appointments") :
            CallOn("requestPostponement", id) =>
               IF Before(id).status \in {<<"scheduled">>, <<"confirmed">>}
               THEN /\ last'.ok
                    /\ After(id).status = <<"postpone_requested">>
                    /\ After(id).postponement =
                          <<last'.arg.newDateTime, last'.arg.reason, <<"doctor">>,
                            <<ToString(clock)>> >>
               ELSE /\ ~last'.ok
                    /\ last'.err.ref = Before(id).status
                    /\ files' = files]_vars

\* requestPostponement has succeeded: the stored appointment is
\* postpone_requested and carries the proposal
C7_Witness ==
    /\ last.op = "requestPostponement"
    /\ last.ok
    /\ last.id \in StoredIds("appointments")
    /\ Stored("appointments", last.id).status = <<"postpone_requested">>
    /\ "postponement" \in DOMAIN Stored("appointments", last.id)

\* the notes of an appointment, the empty string when it has none
NotesOf(appointment) ==
    IF Falsy(Get(appointment, "notes")) THEN <<>> ELSE appointment.notes

\* C8: acceptPostponement succeeds only on a postpone_requested appointment
\* with a postponement record; on success the status is confirmed, dateTime
\* is the record's newDateTime, the notes are the old notes with the reason
\* appended, and the stored appointment has no postponement record
C8_AcceptPostponement ==
    [][/\ (last'.op = "acceptPostponement" /\ last'.ok)
            => last'.id \in StoredIds("appointments")
       /\ \A id \in StoredIds("appointments") :
            (CallOn("acceptPostponement", id) /\ last'.ok) =>
               /\ Before(id).status = <<"postpone_requested">>
               /\ "postponement" \in DOMAIN Before(id)
               /\ After(id).status = <<"confirmed">>
               /\ After(id).dateTime = Before(id).postponement[1]
               /\ LET old == NotesOf(Before(id))
                      new == After(id).notes
                      reason == Before(id).postponement[2]
                  IN /\ Len(new) >= Len(old) + Len(reason)
                     /\ SubSeq(new, 1, Len(old)) = old
                     /\ SubSeq(new, Len(new) - Len(reason) + 1, Len(new)) = reason
               /\ "postponement" \notin DOMAIN After(id)]_vars

\* a second postponement has been accepted: the reason was appended to
\* the notes the first one left
C8_Witness ==
    /\ last.op = "acceptPostponement"
    /\ last.ok
    /\ last.id \in StoredIds("appointments")
    /\ Stored("appointments", last.id).status = <<"confirmed">>
    /\ Stored("appointments", last.id).dateTime = NewDateTime
    /\ Len(Stored("appointments", last.id).notes) > 3

KeptFields == {"dateTime", "notes", "patientId", "doctorId"}

\* C9: rejectPostponement succeeds only on a postpone_requested
\* appointment; on success the status is confirmed and the postponement
\* record is gone; dateTime, notes, patientId and doctorId are changed
\* neither by the request nor by its rejection
C9_RejectPostponement ==
    [][/\ (last'.op = "rejectPostponement" /\ last'.ok)
            => last'.id \in StoredIds("appointments")
       /\ \A id \in StoredIds("appointments") :
            /\ (CallOn("rejectPostponement", id) /\ last'.ok) =>
                  /\ Before(id).status = <<"postpone_requested">>
                  /\ After(id).status = <<"confirmed">>
                  /\ "postponement" \notin DOMAIN After(id)
                  /\ \A f \in KeptFields : Get(After(id), f) = Get(Before(id), f)
            /\ (CallOn("requestPostponement", id) /\ last'.ok) =>
                  \A f \in KeptFields : Get(After(id), f) = Get(Before(id), f)]_vars

\* a request made on a scheduled appointment has been rejected: the
\* appointment is confirmed, at its original date, without a record
C9_Witness ==
    /\ last.op = "rejectPostponement"
    /\ last.ok
    /\ last.id \in StoredIds("appointments")
    /\ Stored("appointments", last.id).status = <<"confirmed">>
    /\ Stored("appointments", last.id).dateTime = <<"2024-01-15T10:00">>
    /\ "postponement" \notin DOMAIN Stored("appointments", last.id)

EnumeratedStatuses ==
    {<<"scheduled">>, <<"confirmed">>, <<"completed">>, <<"cancelled">>,
     <<"postponed">>, <<"postpone_requested">>}

\* C10: after any sequence of appointment calls, the status of every
\* stored appointment is one of the six enumerated values
C10_StatusEnumerated ==
    \A id \in StoredIds("appointments") :
        Get(Stored("appointments", id), "status") \in EnumeratedStatuses

----------------------------------------------------------------------------
(* The status of a new appointment *)

\* the appointments a step writes: the files that are new or whose text changed
WrittenIds(collection) ==
    {id \in StoredIds(collection)' :
        \/ id \notin StoredIds(collection)
        \/ files'[collection][id \o <<JSON_EXT>>] # files[collection][id \o <<JSON_EXT>>]}

\* C11 as stated: every appointment created by scheduleAppointment has status
\* scheduled immediately after creation, whatever the payload says.
C11_CreatedAsScheduled ==
    [][(last'.op = "scheduleAppointment" /\ last'.ok)
       => \A id \in WrittenIds("appointments") : After(id).status = <<"scheduled">>]_vars

\* C11 amended: a successful scheduleAppointment stores one appointment, under
\* the generated id, whose status is the status of the payload, which is one
\* of the six enumerated statuses; scheduled is the status only of the
\* appointments scheduled with it.
C11_CreatedWithPayloadStatus ==
    [][(last'.op = "scheduleAppointment" /\ last'.ok)
       => \E id \in StoredIds("appointments")' :
             /\ After(id).id = id
             /\ After(id).status = last'.arg.status
             /\ last'.arg.status \in validStatuses
             /\ \A other \in StoredIds("appointments")' \ {id} :
                   /\ other \in StoredIds("appointments")
                   /\ After(other) = Before(other)]_vars

\* an appointment has just been scheduled as completed, and is stored so
C11_Witness ==
    /\ last.op = "scheduleAppointment"
    /\ last.ok
    /\ last.arg.status = <<"completed">>
    /\ \E id \in StoredIds("appointments") : Stored("appointments", id).status = <<"completed">>

----------------------------------------------------------------------------
(* The identity of an entity: id and createdAt *)

EntityCollections == {"patients", "doctors", "appointments"}

EntityBefore(collection, id) == files[collection][id \o <<JSON_EXT>>].data
EntityAfter(collection, id) == files'[collection][id \o <<JSON_EXT>>].data

UpdateCalls ==
    {"updatePatient", "updateDoctor", "updateAppointment", "updateAppointmentStatus",
     "cancelAppointment", "requestPostponement", "acceptPostponement",
     "rejectPostponement"}

\* C12: a create call stores the entity with the generated id and the time
\* of the call as createdAt, and every successful update, status or
\* postponement call leaves each stored entity with the id and createdAt it
\* had, also when the payload carries an id or a createdAt of its own.
C12_IdAndCreatedAtKept ==
    [][\A collection \in EntityCollections :
          /\ (last'.op \in CreateCalls /\ last'.ok)
                => \A id \in WrittenIds(collection) :
                      /\ EntityAfter(collection, id).id = id
                      /\ EntityAfter(collection, id).createdAt = <<Stamp(clock)>>
          /\ (last'.op \in UpdateCalls /\ last'.ok)
                => \A id \in StoredIds(collection)' :
                      \E old \in StoredIds(collection) :
                         /\ id \in StoredIds(collection) => old = id
                         /\ EntityAfter(collection, id).id = EntityBefore(collection, old).id
                         /\ EntityAfter(collection, id).createdAt
                               = EntityBefore(collection, old).createdAt]_vars

\* an update whose payload carries another id and another createdAt has
\* succeeded on a stored appointment, which still has its own
C12_Witness ==
    /\ last.op = "updateAppointment"
    /\ last.ok
    /\ Get(last.arg, "id") = OtherId
    /\ Get(last.arg, "createdAt") = OtherCreatedAt
    /\ last.id \in StoredIds("appointments")
    /\ Stored("appointments", last.id).id = last.id
    /\ Stored("appointments", last.id).createdAt # OtherCreatedAt

----------------------------------------------------------------------------
(* Partial updates *)

\* every id a caller of SpecUpdate can pass
PossibleIds(entityType) ==
    LET id == generateId(entityType, 0, FirstSuffix) IN {id, <<WS>> \o id, NoSuchId}

\* the fields a payload names, id and createdAt apart
Named(data) == (DOMAIN data) \ {"id", "createdAt"}

\* existing with the named fields of data set to what data supplies
Merged(existing, data) ==
    Defined([k \in (DOMAIN existing) \cup Named(data) |->
                IF k \in Named(data) THEN data[k] ELSE existing[k]])

PatientFields == {"name", "dateOfBirth", "contactNumber", "address", "email"}

\* what updatePatient makes of a payload: the patient fields it names with a
\* value, each sanitized, an empty email standing for no email
Sanitized(data) ==
    [k \in {f \in PatientFields \cap DOMAIN data : data[f] # UNDEF} |->
        IF k = "email" /\ Falsy(data[k]) THEN UNDEF ELSE sanitizeString(data[k])]

\* C13 as stated: a successful updatePatient or updateDoctor sets each field
\* the payload names to the supplied value, leaves every other field as it
\* was, and a following get of the same id returns the entity so updated.
C13_UpdateSetsSuppliedValues ==
    [][/\ \A id \in PossibleIds("patient") :
             (last'.op = "updatePatient" /\ last'.ok /\ last'.id = id)
                => getPatient(id)' = Ok(<<Merged(getPatient(id).value[1], last'.arg)>>)
       /\ \A id \in PossibleIds("doctor") :
             (last'.op = "updateDoctor" /\ last'.ok /\ last'.id = id)
                => getDoctor(id)' = Ok(<<Merged(getDoctor(id).value[1], last'.arg)>>)]_vars

\* C13 amended: a successful updateDoctor sets each field the payload names
\* (id and createdAt apart) to the supplied value; a successful updatePatient
\* sets each of name, dateOfBirth, contactNumber, address and email that the
\* payload names to the sanitized supplied value, an empty email clearing the
\* email; both leave every other field as it was, and a following get of the
\* same id returns the entity so updated.
C13_UpdateSetsSanitizedValues ==
    [][/\ \A id \in PossibleIds("patient") :
             (last'.op = "updatePatient" /\ last'.ok /\ last'.id = id)
                => getPatient(id)'
                      = Ok(<<Merged(getPatient(id).value[1], Sanitized(last'.arg))>>)
       /\ \A id \in PossibleIds("doctor") :
             (last'.op = "updateDoctor" /\ last'.ok /\ last'.id = id)
                => getDoctor(id)' = Ok(<<Merged(getDoctor(id).value[1], last'.arg)>>)]_vars

\* a patient has just been renamed with a name that has whitespace around
\* it, and is stored under the trimmed name with the contact number it had
C13_Witness ==
    /\ last.op = "updatePatient"
    /\ last.ok
    /\ Get(last.arg, "name") = <<WS, "K", WS>>
    /\ \E id \in StoredIds("patients") :
          /\ Stored("patients", id).name = <<"K">>
          /\ Stored("patients", id).contactNumber = <<"5", "5", "5", "9">>
          /\ Stored("patients", id).email = Email

----------------------------------------------------------------------------
(* Referential integrity of updateAppointment *)

\* C14: an updateAppointment whose payload names a patientId or a doctorId
\* under which no patient or doctor is stored is rejected and leaves the
\* store as it was, so that no successful update puts a reference that does
\* not resolve into an appointment.
C14_UpdateRejectsUnresolvedReference ==
    [][(/\ last'.op = "updateAppointment"
        /\ last'.id \in StoredIds("appointments")
        /\ \/ /\ "patientId" \in DOMAIN last'.arg
              /\ Unresolved("patients", last'.arg.patientId)
           \/ /\ "doctorId" \in DOMAIN last'.arg
              /\ Unresolved("doctors", last'.arg.doctorId))
       => (~last'.ok /\ files' = files)]_vars

----------------------------------------------------------------------------
(* Queries by reference *)

\* the stored entities of the collection whose field has the value
Referencing(collection, field, value) ==
    {Stored(collection, id) : id \in {i \in StoredIds(collection) :
                                        Get(Stored(collection, i), field) = value}}

\* the answer lists each of the entities once and nothing else
ExactlyOnce(answer, entities) ==
    /\ Len(answer) = Cardinality(entities)
    /\ \A entity \in entities : Occurrences(answer, entity) = 1

\* C15: getAppointmentsByPatient(p) returns exactly the stored appointments
\* whose patientId is p, getAppointmentsByDoctor(d) those whose doctorId is
\* d, getPatientRecords(p) the stored records whose patientId is p: each
\* once, nothing else, and the empty list when nothing references the id.
C15_QueriesReturnExactlyTheReferencing ==
    /\ last.op = "getAppointmentsByPatient"
          => last.ok /\ ExactlyOnce(last.ret, Referencing("appointments", "patientId", last.id))
    /\ last.op = "getAppointmentsByDoctor"
          => last.ok /\ ExactlyOnce(last.ret, Referencing("appointments", "doctorId", last.id))
    /\ last.op = "getPatientRecords"
          => last.ok /\ ExactlyOnce(last.ret, Referencing("medical-records", "patientId", last.id))

\* two appointments of different patients are stored and the query for one
\* patient has just returned one of them
C15_Witness ==
    /\ last.op = "getAppointmentsByPatient"
    /\ Cardinality(StoredIds("appointments")) = 2
    /\ Len(last.ret) = 1
    /\ last.ret[1].patientId = last.id
    /\ \E id \in StoredIds("appointments") : Stored("appointments", id).patientId # last.id

----------------------------------------------------------------------------
(* The kind of a referential failure *)

\* C16: a scheduleAppointment or createRecord that is rejected because the
\* patient or the doctor it references does not exist fails with an error
\* of code REFERENTIAL_INTEGRITY_ERROR that names the id and whether it is
\* the patient or the doctor that is missing.
C16_ReferentialFailureHasItsCode ==
    (/\ last.op \in {"scheduleAppointment", "createRecord"}
     /\ ~last.ok
     /\ last.err.what = "DoesNotExist")
    => /\ last.err.code = "REFERENTIAL_INTEGRITY_ERROR"
       /\ \/ last.err.names = <<"Patient">> /\ last.err.ref = last.arg.patientId
          \/ last.err.names = <<"Doctor">> /\ last.err.ref = last.arg.doctorId

----------------------------------------------------------------------------
(* load of a file that does not parse *)

\* C17: load of a file that exists and does not parse fails with code
\* JSON_PARSE_ERROR and returns no value; load of a missing file succeeds
\* with the absent result; load of a path that cannot be read for another
\* reason fails with code STORAGE_ERROR; so JSON_PARSE_ERROR is signalled
\* for the files that do not parse and for no others.
C17_LoadSignalsCorruptedData ==
    \A c \in Collections, id \in StoreIds :
        (last.op = "load" /\ last.coll = c /\ last.id = id)
        => LET name == id \o <<JSON_EXT>> IN
           /\ name \in Corrupted(c)
                 => (~last.ok /\ last.err.code = "JSON_PARSE_ERROR" /\ last.ret = <<>>)
           /\ ~exists(c, id) => (last.ok /\ last.ret = <<>>)
           /\ IsDirectory(<<c, name>>) => (~last.ok /\ last.err.code = "STORAGE_ERROR")
           /\ last.err.code = "JSON_PARSE_ERROR" => name \in Corrupted(c)

\* load has just failed with JSON_PARSE_ERROR on a file that does not parse,
\* next to a path of the same collection that cannot be read at all
C17_Witness ==
    /\ last.op = "load"
    /\ ~last.ok
    /\ last.err.code = "JSON_PARSE_ERROR"
    /\ (last.id \o <<JSON_EXT>>) \in Corrupted(last.coll)
    /\ \E n \in DOMAIN files[last.coll] : files[last.coll][n] = DirectoryEntry

----------------------------------------------------------------------------
(* Write failures *)

\* the service calls that end by saving an entity
SavingCalls == CreateCalls \cup UpdateCalls

\* fs.writeFile would fail on any file of the collection
WriteFails(collection) == readOnly \/ collection \notin dirs

\* C18: when the file write fails, a register call (which reaches its save
\* whenever its payload is valid) fails with the storage failure that save
\* signals, and every call that saves - register, schedule, create, update,
\* status or postponement transition - fails to its caller and leaves the
\* files as they were; a storage failure is signalled for no other reason.
C18_WriteFailureReachesTheCaller ==
    [][/\ (last'.op = "registerPatient" /\ WriteFails("patients"))
             => (~last'.ok /\ last'.err.code = "STORAGE_ERROR" /\ last'.err.what = "save")
       /\ (last'.op = "registerDoctor" /\ WriteFails("doctors"))
             => (~last'.ok /\ last'.err.code = "STORAGE_ERROR" /\ last'.err.what = "save")
       /\ (last'.op \in SavingCalls /\ readOnly) => (~last'.ok /\ files' = files)
       /\ (last'.op \in SavingCalls /\ last'.err.code = "STORAGE_ERROR")
             => (readOnly \/ dirs = {})]_vars

\* on a read-only file system a status update of a stored appointment has
\* just failed with the storage failure of save
C18_Witness ==
    /\ readOnly
    /\ last.op = "updateAppointmentStatus"
    /\ last.id \in StoredIds("appointments")
    /\ ~last.ok
    /\ last.err.code = "STORAGE_ERROR"
    /\ last.err.what = "save"
    /\ Stored("appointments", last.id).status # <<"confirmed">>

----------------------------------------------------------------------------
(* Store-level delete *)

\* the values the files of the store hold
StoredValues == UNION {{files[c][n].data : n \in DOMAIN files[c]} : c \in Collections}

\* 1 when the file of id in the collection parses to the value, else 0
Holds(collection, id, value) ==
    IF /\ exists(collection, id)
       /\ (id \o <<JSON_EXT>>) \in Parseable(collection)
       /\ files[collection][id \o <<JSON_EXT>>].data = value
    THEN 1 ELSE 0

\* C19: delete(collection, id) of an id that has no file succeeds and leaves
\* the store as it was; after any successful delete(collection, id),
\* load(collection, id) returns the absent result without failing,
\* exists(collection, id) is false, loadAll(collection) returns what it
\* returned before less the deleted entity, and every other file of every
\* collection is as it was.
C19_DeleteIsIdempotent ==
    [][\A c \in Collections, id \in StoreIds :
          (last'.op = "delete" /\ last'.coll = c /\ last'.id = id)
          => /\ ~exists(c, id) => (last'.ok /\ files' = files /\ dirs' = dirs)
             /\ last'.ok
                   => /\ load(c, id)' = Ok(<<>>)
                      /\ ~exists(c, id)'
                      /\ loadAll(c)'.ok
                      /\ \A v \in StoredValues :
                            Occurrences(loadAll(c)'.value, v)
                               = Occurrences(loadAll(c).value, v) - Holds(c, id, v)
                      /\ \A c2 \in Collections :
                            /\ DOMAIN files'[c2] \cup (IF c2 = c THEN {id \o <<JSON_EXT>>} ELSE {})
                                  = DOMAIN files[c2] \cup (IF c2 = c THEN {id \o <<JSON_EXT>>} ELSE {})
                            /\ \A n \in DOMAIN files'[c2] : files'[c2][n] = files[c2][n]]_vars

\* a delete has just succeeded: the id has no file, and another entity of
\* the same collection is still stored
C19_Witness ==
    /\ last.op = "delete"
    /\ last.ok
    /\ ~exists(last.coll, last.id)
    /\ \E id \in StoreIds : exists(last.coll, id)

----------------------------------------------------------------------------
(* deletePatient and deleteDoctor *)

\* the delete call of the service of a collection
DeleteCallOf(collection) == IF collection = "patients" THEN "deletePatient" ELSE "deleteDoctor"

\* C20: deletePatient and deleteDoctor leave the appointments, the medical
\* records and the other of the two collections as they were, and a
\* successful call removes the one document of the given id and no other;
\* the appointments and records that referenced it stay stored with their
\* reference.
C20_DeleteRemovesOneDocument ==
    [][\A c \in {"patients", "doctors"} :
          (last'.op = DeleteCallOf(c))
          => /\ \A other \in Collections \ {c} : files'[other] = files[other]
             /\ dirs' = dirs
             /\ last'.ok => /\ last'.id \in StoredIds(c)
                            /\ StoredIds(c)' = StoredIds(c) \ {last'.id}
             /\ ~last'.ok => files'[c] = files[c]
             /\ \A n \in DOMAIN files'[c] :
                   n \in DOMAIN files[c] /\ files'[c][n] = files[c][n]]_vars

\* a patient has just been deleted; an appointment and a medical record
\* that reference the patient are still stored
C20_Witness ==
    /\ last.op = "deletePatient"
    /\ last.ok
    /\ ~exists("patients", last.id)
    /\ \E id \in StoredIds("appointments") : Stored("appointments", id).patientId = last.id
    /\ \E id \in StoredIds("medical-records") : Stored("medical-records", id).patientId = last.id

----------------------------------------------------------------------------
(* Plain status updates *)

\* the status a status call asks for
AskedStatus(call) ==
    IF call.op = "cancelAppointment" THEN <<"cancelled">> ELSE call.arg.status

\* C21: updateAppointmentStatus(id, s) on a stored appointment succeeds
\* whatever the current status is, stores status s and leaves every other
\* field of the appointment and every other file as they were;
\* cancelAppointment(id) does what updateAppointmentStatus(id, cancelled) does.
C21_StatusUpdateIsUnconditional ==
    [][\A id \in StoredIds("appointments") :
          (last'.op \in {"updateAppointmentStatus", "cancelAppointment"} /\ last'.id = id)
          => /\ last'.ok
             /\ After(id).status = AskedStatus(last')
             /\ DOMAIN After(id) = DOMAIN Before(id)
             /\ \A k \in (DOMAIN Before(id)) \ {"status"} : After(id)[k] = Before(id)[k]
             /\ files' = [files EXCEPT !["appointments"][id \o <<JSON_EXT>>] = files'["appointments"][id \o <<JSON_EXT>>]]
             /\ last'.op = "cancelAppointment"
                   => files' = updateAppointmentStatus(id, <<"cancelled">>).files]_vars

\* an appointment with a pending postponement request has just been set to
\* completed by updateAppointmentStatus; the request is still on it
C21_Witness ==
    /\ last.op = "updateAppointmentStatus"
    /\ last.ok
    /\ last.arg.status = <<"completed">>
    /\ last.id \in StoredIds("appointments")
    /\ Stored("appointments", last.id).status = <<"completed">>
    /\ Get(Stored("appointments", last.id), "postponement") # UNDEF

----------------------------------------------------------------------------
(* Interleaved updates of one entity *)

\* the save of call t completes in this step
Saves(t) == tasks[t].pc = "write" /\ tasks'[t].pc = "idle"

\* C22: when updates of the same entity interleave, the last write wins:
\* after the save of an update completes, the stored document is exactly the
\* merged document of that update, whatever the other update has loaded or
\* written in between - never a mixture of the two.
C22_LastWriteWins ==
    [][\A t \in TaskIds :
          (Saves(t) /\ tasks[t].op \in {"updateDoctor", "updatePatient"})
          => LET path == getFilePath(tasks[t].coll, tasks[t].id) IN
             /\ path[2] \in DOMAIN files'[path[1]]
             /\ files'[path[1]][path[2]] = stringify(tasks[t].entity)]_vars

----------------------------------------------------------------------------
(* loadAll while files are deleted or spoilt *)

\* the documents a returned list holds
Returned(ret) == {ret[i] : i \in 1..Len(ret)}

\* C23: a file deleted or made unreadable between the listing of loadAll and
\* its own read is skipped: loadAll does not raise, and it returns every
\* entity whose file no step of the scan found changed since the listing.
C23_ScanSkipsWhatItCannotRead ==
    [][\A t \in TaskIds :
          (tasks[t].op = "loadAll" /\ tasks[t].pc = "read" /\ tasks'[t].pc = "idle")
          => /\ last'.ok
             /\ \A s \in StillStable(tasks[t].coll, tasks[t].entity).stable :
                   (endsWithJson(s.name) /\ s.text.valid)
                   => s.text.data \in Returned(last'.ret)]_vars

\* a scan listed two files, found one of them gone and returned the other
C23_Witness ==
    /\ last.op = "loadAll" /\ last.ok
    /\ Len(last.arg.listed) = 2
    /\ Len(last.arg.gone) = 1
    /\ Len(last.ret) = 1
    /\ \E n \in DOMAIN files["patients"] :
          files["patients"][n].valid /\ last.ret[1] = files["patients"][n].data

----------------------------------------------------------------------------
(* Start-up is repeatable and keeps what is stored *)

\* C24: initialize and initializeSystem, run on a data directory of which
\* any part exists already, succeed, end with the root and the four
\* collection directories, and leave every file as it was, so that every
\* entity stored before is loaded by its id afterwards; run again, they
\* change nothing.
C24_InitializeKeepsTheStore ==
    [][last'.op \in {"initialize", "initializeSystem"}
       => /\ last'.ok
          /\ dirs' = {"root"} \cup Collections
          /\ files' = files
          /\ initialize' = dirs'
          /\ \A c \in StoreCollections, id \in StoreIds :
                (FileExists(getFilePath(c, id)) /\ files[c][id \o <<JSON_EXT>>].valid)
                => load(c, id)' = Ok(<<files[c][id \o <<JSON_EXT>>].data>>)]_vars

\* the system started on a data directory that held an entity, which is
\* still there
C24_Witness ==
    /\ last.op = "initializeSystem" /\ last.ok
    /\ dirs = {"root"} \cup Collections
    /\ \E c \in StoreCollections, id \in StoreIds :
          /\ FileExists(getFilePath(c, id))
          /\ load(c, id).ok /\ load(c, id).value # <<>>

----------------------------------------------------------------------------
(* Identifiers are unique *)

\* C25: successive calls of generateId for one entity kind return different
\* identifiers, so a create never gets the id of a stored entity and never
\* overwrites one.
C25_IdsAreDistinct ==
    [][/\ (last.op = "generateId" /\ last'.op = "generateId" /\ last'.coll = last.coll)
          => last'.ret # last.ret
       /\ (last'.op = "registerPatient" /\ last'.ok)
          => /\ StoredIds("patients")' # StoredIds("patients")
             /\ \A id \in StoredIds("patients") :
                   /\ id \in StoredIds("patients")'
                   /\ files'["patients"][id \o <<JSON_EXT>>] = files["patients"][id \o <<JSON_EXT>>]]_vars

----------------------------------------------------------------------------
(* The postponement record and the status *)

\* C26: after any sequence of appointment operations a stored appointment
\* has a postponement record exactly when its status is postpone_requested.
C26_RecordIffPostponeRequested ==
    \A id \in StoredIds("appointments") :
        (Get(Stored("appointments", id), "postponement") # UNDEF)
        <=> (Stored("appointments", id).status = <<"postpone_requested">>)

----------------------------------------------------------------------------
(* The referential check and the write *)

\* C27: whenever scheduleAppointment or createRecord writes its file, with
\* deletePatient and deleteDoctor running in between its steps, the patient
\* and the doctor the document names are both stored at that moment.
C27_ReferencesExistAtTheWrite ==
    [][\A t \in TaskIds :
          (tasks[t].op \in {"scheduleAppointment", "createRecord"}
           /\ tasks[t].pc \in {"open", "write"} /\ tasks'[t].pc # tasks[t].pc
           /\ files' # files)
          => /\ tasks[t].entity.patientId \in StoredIds("patients")
             /\ tasks[t].entity.doctorId \in StoredIds("doctors")]_vars

----------------------------------------------------------------------------
(* Status transitions of calls in flight together *)

\* call t starts to overwrite a stored, readable appointment in this step
Overwrites(t, op) ==
    /\ tasks[t].op = op
    /\ tasks[t].pc = "open" /\ tasks'[t].pc = "write"
    /\ tasks[t].id \in StoredIds("appointments")
    /\ files["appointments"][tasks[t].id \o <<JSON_EXT>>].valid

\* C28: however the calls on one appointment interleave, a requestPostponement
\* replaces only a stored status of scheduled or confirmed, and an accept or
\* a reject replaces only a stored status of postpone_requested; a stored
\* cancelled or completed status is never overwritten by them.
C28_TransitionsStartFromTheStoredStatus ==
    [][\A t \in TaskIds :
          LET stored == Stored("appointments", tasks[t].id).status IN
          /\ (Overwrites(t, "requestPostponement") /\ stored # <<"postpone_requested">>)
                => stored \in {<<"scheduled">>, <<"confirmed">>}
          /\ ((Overwrites(t, "acceptPostponement") \/ Overwrites(t, "rejectPostponement"))
                /\ stored # <<"confirmed">>)
                => stored = <<"postpone_requested">>]_vars

----------------------------------------------------------------------------
(* The two referential checks agree *)

\* C29: in every store state, with patient and doctor files that parse or
\* are corrupted, and for every pair of ids, padded or not, the check of
\* scheduleAppointment (getPatient, getDoctor) and the check of createRecord
\* (exists) accept the same pairs.
C29_ChecksAgree ==
    \A p \in IdInputs("patients"), d \in IdInputs("doctors") :
        validateReferentialIntegrity(p, d).ok <=> validateRecordData(RecordData(p, d)).ok

----------------------------------------------------------------------------
(* sanitizeString applied twice *)

\* C30: sanitizeString(sanitizeString(s)) = sanitizeString(s) for every
\* string s, and the result has no whitespace at either end; so the id that
\* updatePatient and deletePatient look up, sanitized once more inside
\* getPatient, is the id under which they then save or delete.
C30_SanitizeIsIdempotent ==
    [][/\ last'.op = "sanitizeString"
          => /\ sanitizeString(last'.ret[1]) = last'.ret[1]
             /\ trim(last'.ret[1]) = last'.ret[1]
       /\ (last'.op = "updatePatient" /\ last'.ok)
          => WrittenIds("patients") \subseteq {sanitizeString(sanitizeString(last'.id))}
       /\ (last'.op = "deletePatient" /\ last'.ok)
          => sanitizeString(sanitizeString(last'.id)) \notin StoredIds("patients")']_vars

====
